---- MODULE Spec2Model ----
(***************************************************************************)
(* A model of src/main.rs: the Vulkan triangle program.  The CPU side is    *)
(* one thread: App::new (the startup stages), the winit event loop with     *)
(* its handler closure, draw_frame, and Drop for App.  The GPU side (the    *)
(* graphics queue, the presentation engine and the two binary semaphores)   *)
(* runs concurrently with the CPU and is modelled by its own actions.       *)
(***************************************************************************)
EXTENDS Integers, Sequences, FiniteSets, TLC

\* ------------------------------------------------------------------ bounds
MaxFrames == 2          \* draw_frame calls in one run
MaxImages == 2          \* images the swapchain may return beyond the request
MaxDevices == 2         \* enumerated physical devices
MaxFormats == 3         \* enumerated surface formats
MaxShaderBytes == 2     \* bytes of one shader file
MaxPresentModes == 3    \* enumerated present modes
MaxLayers == 3          \* enumerated instance layers
MaxFamilies == 2        \* queue families of one physical device
MaxImageCount == 5      \* min_image_count and max_image_count of a surface

None == -1              \* Option::None of an index

\* ----------------------------------------------------------------- handles
\* A native handle is <<kind, index>>; index 0 for the kinds App holds once.
H(kind) == <<kind, 0>>

instance == H("instance")
debug_utils_messenger == H("debug_utils_messenger")
surface_khr == H("surface_khr")
device == H("device")
swapchain_khr == H("swapchain_khr")
render_pass == H("render_pass")
pipeline_layout == H("pipeline_layout")
graphic_pipeline == H("graphic_pipeline")
vert_shader_module == H("vert_shader_module")
frag_shader_module == H("frag_shader_module")
command_pool == H("command_pool")
image_avaliable_semaphore == H("image_avaliable_semaphore")
render_finished_semaphore == H("render_finished_semaphore")
swapchain_image_views(n) == [i \in 1..n |-> <<"image_view", i>>]
swapchain_framebuffers(n) == [i \in 1..n |-> <<"framebuffer", i>>]

Range(s) == {s[i] : i \in 1..Len(s)}

\* The orders in which the elements of a HashSet may be iterated.
Orders(S) == {s \in [1..Cardinality(S) -> S] : Range(s) = S}

\* ------------------------------------------------------------ native calls
\* One call into the driver: what it does to a handle, the handles it is
\* handed, and the message of the expect() around it ("" when the call
\* returns nothing that can fail).
Create(h, uses, msg) == [op |-> "create", h |-> h, uses |-> uses, msg |-> msg]
Destroy(h, uses) == [op |-> "destroy", h |-> h, uses |-> uses \cup {h}, msg |-> ""]
Call(name, uses, msg) == [op |-> name, h |-> H("-"), uses |-> uses, msg |-> msg]

Live(cl, dl) == Range(cl) \ Range(dl)

\* The effect of one call on the record of creations and destructions;
\* stale notes a call that was handed a handle not alive at that point.
RunCall(st, c) ==
    [created |-> IF c.op = "create" THEN Append(st.created, c.h) ELSE st.created,
     destroyed |-> IF c.op = "destroy" THEN Append(st.destroyed, c.h) ELSE st.destroyed,
     stale |-> st.stale \/ ~(c.uses \subseteq Live(st.created, st.destroyed))]

RECURSIVE RunCalls(_, _)
RunCalls(st, calls) ==
    IF calls = <<>> THEN st
    ELSE RunCalls(RunCall(st, Head(calls)), Tail(calls))

RECURSIVE Flatten(_)
Flatten(ss) == IF ss = <<>> THEN <<>> ELSE Head(ss) \o Flatten(Tail(ss))

\* ---------------------------------------------------------- pure functions
VALIDATION_LAYER == "VK_LAYER_KHRONOS_validation"
required_validation_layers == <<VALIDATION_LAYER>>
enable_validation == TRUE
DEVICE_EXTENSIONS == {"VK_KHR_swapchain"}

\* A layer_name is a buffer of characters: pieces of text, the terminating
\* NUL, and whatever the buffer holds behind it.
NUL == "NUL"

\* The buffer that holds the name s and nothing else.
c_chars(s) == <<s, NUL>>

\* u8_to_string: CStr::from_ptr reads the buffer up to the first NUL.
RECURSIVE u8_to_string(_)
u8_to_string(i8_str) ==
    IF i8_str = <<>> \/ Head(i8_str) = NUL THEN <<>>
    ELSE <<Head(i8_str)>> \o u8_to_string(Tail(i8_str))

\* The inner loop of check_validation_layer_support taking a layer whose
\* name begins with the name looked for.
RECURSIVE layer_found_prefix(_, _, _)
layer_found_prefix(layer_properties, check_layer, j) ==
    IF j > Len(layer_properties) THEN FALSE
    ELSE LET c_str == u8_to_string(layer_properties[j])
         IN IF c_str # <<>> /\ Head(c_str) = check_layer THEN TRUE
            ELSE layer_found_prefix(layer_properties, check_layer, j + 1)

\* The inner loop of check_validation_layer_support from property j on:
\* found, or the end of the list.
RECURSIVE layer_found(_, _, _)
layer_found(layer_properties, check_layer, j) ==
    IF j > Len(layer_properties) THEN FALSE
    ELSE LET c_str == u8_to_string(layer_properties[j])
         IN IF c_str = <<check_layer>> THEN TRUE
            ELSE layer_found(layer_properties, check_layer, j + 1)

\* The outer loop from layer k on: false at the first layer not found.
RECURSIVE check_layers_from(_, _, _)
check_layers_from(layer_properties, layers, k) ==
    IF k > Len(layers) THEN TRUE
    ELSE IF ~layer_found(layer_properties, layers[k], 1) THEN FALSE
         ELSE check_layers_from(layer_properties, layers, k + 1)

check_validation_layer_support(layer_properties, layers) ==
    check_layers_from(layer_properties, layers, 1)

is_complete(indices) ==
    indices.graphics_family # None /\ indices.present_family # None

\* The loop of find_queue_family taking a family whatever its queue_count.
RECURSIVE find_queue_family_from_any_count(_, _, _)
find_queue_family_from_any_count(families, index, indices) ==
    IF index >= Len(families) THEN [indices |-> indices, index |-> index]
    ELSE LET qf == families[index + 1]
             g == IF qf.graphics THEN index ELSE indices.graphics_family
             p == IF qf.present THEN index ELSE indices.present_family
             next == [graphics_family |-> g, present_family |-> p]
         IN IF is_complete(next) THEN [indices |-> next, index |-> index]
            ELSE find_queue_family_from_any_count(families, index + 1, next)

\* The loop of find_queue_family from family number index on (0-based):
\* the indices found and the value of index when the loop ends.
RECURSIVE find_queue_family_from(_, _, _)
find_queue_family_from(families, index, indices) ==
    IF index >= Len(families) THEN [indices |-> indices, index |-> index]
    ELSE LET qf == families[index + 1]
             g == IF qf.queue_count > 0 /\ qf.graphics
                  THEN index ELSE indices.graphics_family
             p == IF qf.queue_count > 0 /\ qf.present
                  THEN index ELSE indices.present_family
             next == [graphics_family |-> g, present_family |-> p]
         IN IF is_complete(next) THEN [indices |-> next, index |-> index]
            ELSE find_queue_family_from(families, index + 1, next)

find_queue_family(p_device) ==
    find_queue_family_from(p_device.families, 0,
        [graphics_family |-> None, present_family |-> None]).indices

\* The families find_queue_family asks get_physical_device_surface_support
\* about before its loop ends.
families_queried(p_device) ==
    LET r == find_queue_family_from(p_device.families, 0,
                 [graphics_family |-> None, present_family |-> None])
    IN IF is_complete(r.indices) THEN r.index + 1 ELSE r.index

check_physic_device_extension_support(p_device) ==
    DEVICE_EXTENSIONS \ p_device.extensions = {}

is_device_suitable(p_device) ==
    LET queue_family_indices == find_queue_family(p_device)
        extensions_support == check_physic_device_extension_support(p_device)
        swap_chain_adequate ==
            IF extensions_support
            THEN p_device.has_formats /\ p_device.has_present_modes
            ELSE FALSE
    IN is_complete(queue_family_indices) /\ extensions_support /\ swap_chain_adequate

\* The loop of pick_physic_device: suitable_device is overwritten by every
\* suitable device met (the loop has no break); None when there is none.
RECURSIVE pick_loop(_, _, _)
pick_loop(devices, i, suitable_device) ==
    IF i > Len(devices) THEN suitable_device
    ELSE pick_loop(devices, i + 1,
                   IF is_device_suitable(devices[i]) THEN i ELSE suitable_device)

\* pick_physic_device settling for the first device when none is suitable.
pick_physic_device_any(devices) ==
    pick_loop(devices, 1, IF Len(devices) > 0 THEN 1 ELSE None)

pick_physic_device(devices) == pick_loop(devices, 1, None)

B8G8R8A8_SRGB == "B8G8R8A8_SRGB"
SRGB_NONLINEAR == "SRGB_NONLINEAR"

\* choose_swap_surface_format falling back to the last entry instead of the
\* first.
RECURSIVE format_loop_last(_, _)
format_loop_last(avaliable, i) ==
    IF i > Len(avaliable) THEN Len(avaliable)
    ELSE IF avaliable[i].format = B8G8R8A8_SRGB
            /\ avaliable[i].color_space = SRGB_NONLINEAR
         THEN i
         ELSE format_loop_last(avaliable, i + 1)

\* The index (1-based) of the entry choose_swap_surface_format returns.
RECURSIVE format_loop(_, _)
format_loop(avaliable, i) ==
    IF i > Len(avaliable) THEN 1
    ELSE IF avaliable[i].format = B8G8R8A8_SRGB
            /\ avaliable[i].color_space = SRGB_NONLINEAR
         THEN i
         ELSE format_loop(avaliable, i + 1)

choose_swap_surface_format(avaliable) == avaliable[format_loop(avaliable, 1)]

MAILBOX == "MAILBOX"
FIFO == "FIFO"

\* choose_swap_present_mode falling back to the first enumerated mode.
RECURSIVE present_mode_loop_first(_, _)
present_mode_loop_first(modes, i) ==
    IF i > Len(modes) THEN (IF Len(modes) > 0 THEN modes[1] ELSE FIFO)
    ELSE IF modes[i] = MAILBOX THEN modes[i]
         ELSE present_mode_loop_first(modes, i + 1)

\* The loop of choose_swap_present_mode from entry i on, and the return
\* after it.
RECURSIVE present_mode_loop(_, _)
present_mode_loop(modes, i) ==
    IF i > Len(modes) THEN FIFO
    ELSE IF modes[i] = MAILBOX THEN modes[i]
         ELSE present_mode_loop(modes, i + 1)

choose_swap_present_mode(avaliable) == present_mode_loop(avaliable, 1)

WINDOW_WIDTH == 800
WINDOW_HEIGHT == 600

\* std::u32::MAX, the width a surface reports when it leaves the extent to
\* the swapchain.  Only equality with it is used; the largest integer of the
\* model stands for it.
U32_MAX == 2147483647

\* num::clamp
clamp(input, min, max) ==
    IF input < min THEN min ELSE IF input > max THEN max ELSE input

Extent2D(w, h) == [width |-> w, height |-> h]

\* choose_swap_extent taking the window's size whatever the surface reports.
choose_swap_extent_window(avaliable_capabilities) ==
    Extent2D(clamp(WINDOW_WIDTH,
                   avaliable_capabilities.min_image_extent.width,
                   avaliable_capabilities.max_image_extent.width),
             clamp(WINDOW_HEIGHT,
                   avaliable_capabilities.min_image_extent.height,
                   avaliable_capabilities.max_image_extent.height))

choose_swap_extent(avaliable_capabilities) ==
    IF avaliable_capabilities.current_extent.width # U32_MAX
    THEN avaliable_capabilities.current_extent
    ELSE Extent2D(clamp(WINDOW_WIDTH,
                        avaliable_capabilities.min_image_extent.width,
                        avaliable_capabilities.max_image_extent.width),
                  clamp(WINDOW_HEIGHT,
                        avaliable_capabilities.min_image_extent.height,
                        avaliable_capabilities.max_image_extent.height))

\* create_swap_chain asking for one image more than the least, whatever the
\* most is.
image_count_unclamped(avaliable_capabilities) ==
    avaliable_capabilities.min_image_count + 1

\* create_swap_chain, lines 498-502: one image more than the least, but no
\* more than the most when there is a most (max_image_count > 0).
image_count(avaliable_capabilities) ==
    IF avaliable_capabilities.max_image_count > 0
       /\ avaliable_capabilities.min_image_count + 1
             > avaliable_capabilities.max_image_count
    THEN avaliable_capabilities.max_image_count
    ELSE avaliable_capabilities.min_image_count + 1

CONCURRENT == "CONCURRENT"
EXCLUSIVE == "EXCLUSIVE"

\* create_swap_chain never sharing the images between families.
sharing_mode_exclusive(queue_family) ==
    [image_sharing_mode |-> EXCLUSIVE,
     queue_family_index_count |-> 0,
     p_queue_family_indices |-> <<>>]

\* create_swap_chain, lines 504-519: image_sharing_mode, index_count and
\* what indices_ptr points to (nothing for ptr::null()).
sharing_mode(queue_family) ==
    LET qf_indices == <<queue_family.graphics_family, queue_family.present_family>>
    IN IF qf_indices[1] # qf_indices[2]
       THEN [image_sharing_mode |-> CONCURRENT,
             queue_family_index_count |-> 2,
             p_queue_family_indices |-> qf_indices]
       ELSE [image_sharing_mode |-> EXCLUSIVE,
             queue_family_index_count |-> 0,
             p_queue_family_indices |-> <<>>]

\* `as f32` of a u32: the nearest value with a mantissa of 24 bits, ties to
\* the even one; exact up to 2^24.
F32_MANTISSA == 16777216

RECURSIVE f32_spacing(_, _)
f32_spacing(v, s) == IF v \div s < F32_MANTISSA THEN s ELSE f32_spacing(v, 2 * s)

as_f32(v) ==
    LET s == f32_spacing(v, 1)
        q == v \div s
        r == v % s
    IN IF 2 * r < s \/ (2 * r = s /\ q % 2 = 0) THEN q * s ELSE (q + 1) * s

\* create_logic_device: one DeviceQueueCreateInfo of one queue for every
\* family of the HashSet unique_queue_familes.
unique_queue_familes(indices) == {indices.graphics_family, indices.present_family}

DeviceQueueCreateInfo(index) == [queue_family_index |-> index, queue_count |-> 1]

\* The DeviceCreateInfo: the pointer to the Vec of queue create infos, and
\* the count of them the driver is told to read.
DeviceCreateInfo(device_queue_create_infos) ==
    [queue_create_info_count |-> 1,
     p_queue_create_infos |-> device_queue_create_infos]

\* get_device_queue(queue_family_index, queue_index)
DeviceQueue(family, index) == [queue_family_index |-> family, queue_index |-> index]

\* read_shader_code: the bytes of the file whose read succeeded, in order;
\* a byte whose read failed ("err") is dropped by filter_map(|b| b.ok()).
read_shader_code(file) == SelectSeq(file, LAMBDA b : b # "err")

\* ------------------------------------------------------------------- state
VARIABLES
    instance_layers,      \* enumerate_instance_layer_properties: the layer_name buffers
    physical_devices,     \* enumerate_physical_devices: what each device reports
    avaliable_formats,    \* get_physical_device_surface_formats of the surface
    avaliable_present_modes,  \* get_physical_device_surface_present_modes
    capabilities,         \* get_physical_device_surface_capabilities
    pc,                   \* where the one CPU thread is
    failures,             \* the operations that have failed so far
    abort_msg,            \* the panic message ("" while there is none)
    created,              \* the handles created, in order
    destroyed,            \* the handles destroyed, in order
    stale,                \* a native call was handed a handle not alive
    stages,               \* the stages run so far, in order
    physical_device,      \* App::physical_device: index into physical_devices
    surface_format,       \* the entry create_swap_chain chose
    swapchain_ci,         \* the SwapchainCreateInfoKHR handed to create_swapchain
    swapchain_extent,     \* App::swapchain_extent
    device_ci,            \* the DeviceCreateInfo handed to create_device
    pipeline_ci,          \* what create_graphics_pipeline built the pipeline from
    image_view_cis,       \* the ImageViewCreateInfo of each image view
    framebuffer_cis,      \* the FramebufferCreateInfo of each framebuffer
    swapchain_image,      \* App::swapchain_image: the number of images
    queue_family_indices, \* the indices App::new found for physical_device
    device_queues,        \* the queues App::new fetched: graphics, present
    command_buffers,      \* App::command_buffers: per buffer, what was recorded
    control_flow,         \* winit's ControlFlow
    redraw_requested,     \* window.request_redraw() is pending
    last_event,           \* the event the handler ran for last
    frame,                \* draw_frame calls started
    calls,                \* the native calls of draw_frame, in order
    image_state,          \* per swapchain image: free, acquired, queued, presented
    image_avaliable_signaled,   \* state of the binary semaphore
    render_finished_signaled,   \* state of the binary semaphore
    acquire_pending,      \* frames whose acquisition has yet to signal
    graphics_queue,       \* submitted batches (frames), oldest first
    executing,            \* the oldest batch passed its semaphore wait
    present_queue,        \* queued present requests (frames), oldest first
    acquire_signalled,    \* frames whose acquisition signalled image-available
    color_started,        \* frames whose batch started color attachment output
    render_signalled,     \* frames whose batch signalled render-finished
    present_started       \* frames whose presentation started

envVars == <<instance_layers, physical_devices, avaliable_formats,
             avaliable_present_modes, capabilities>>
handleVars == <<created, destroyed, stale>>
appVars == <<physical_device, surface_format, swapchain_ci, swapchain_extent,
             device_ci, pipeline_ci, image_view_cis, framebuffer_cis,
             swapchain_image, queue_family_indices, device_queues,
             command_buffers>>
loopVars == <<control_flow, redraw_requested, last_event>>
gpuVars == <<image_state, image_avaliable_signaled, render_finished_signaled,
             acquire_pending, graphics_queue, executing, present_queue,
             acquire_signalled, color_started, render_signalled, present_started>>
vars == <<envVars, pc, failures, abort_msg, handleVars, stages, appVars, loopVars,
          frame, calls, gpuVars>>

\* ------------------------------------------------------------- environment
SeqsUpTo(S, n) == UNION {[1..k -> S] : k \in 0..n}

QueueFamily(n, g, p) == [queue_count |-> n, graphics |-> g, present |-> p]

\* What get_physical_device_queue_family_properties may report: one family
\* for both, graphics only, one family for each.
FamilyLists ==
    {<<QueueFamily(1, TRUE, TRUE)>>,
     <<QueueFamily(1, TRUE, FALSE)>>,
     <<QueueFamily(1, TRUE, FALSE), QueueFamily(1, FALSE, TRUE)>>}

PhysicalDevices ==
    [families : FamilyLists,
     extensions : {{}, DEVICE_EXTENSIONS},
     has_formats : BOOLEAN,
     has_present_modes : BOOLEAN]

\* Every family a device may report, with and without queues, and every
\* device with up to MaxFamilies of them; a device may report extensions
\* besides the required ones.
QueueFamilies == {QueueFamily(n, g, p) : n \in {0, 1}, g \in BOOLEAN, p \in BOOLEAN}
DeviceExtensionSets ==
    {{}, DEVICE_EXTENSIONS, DEVICE_EXTENSIONS \cup {"VK_KHR_maintenance1"}}
SuitabilityDevices ==
    [families : SeqsUpTo(QueueFamilies, MaxFamilies),
     extensions : DeviceExtensionSets,
     has_formats : BOOLEAN,
     has_present_modes : BOOLEAN]

SurfaceFormats ==
    [format : {B8G8R8A8_SRGB, "R8G8B8A8_UNORM"},
     color_space : {SRGB_NONLINEAR, "EXTENDED_SRGB_LINEAR"}]

ShaderFiles == SeqsUpTo({"byte", "err"}, MaxShaderBytes)

\* The layer_name buffers a loader may enumerate: the validation layer, a
\* layer whose name begins with its name, another layer, and the validation
\* layer in a buffer that is not empty behind the NUL.
LayerNames ==
    {c_chars(VALIDATION_LAYER),
     <<VALIDATION_LAYER, "_old", NUL>>,
     c_chars("VK_LAYER_LUNARG_api_dump"),
     <<VALIDATION_LAYER, NUL, "_old", NUL>>}

PresentModes == {"IMMEDIATE", MAILBOX, FIFO, "FIFO_RELAXED"}

\* What get_physical_device_surface_capabilities may report: the surface's
\* extent or u32::MAX twice, and the least and the largest extent it
\* supports, the least no larger than the largest.
Widths == {1, 640, 1024, 4096}
Heights == {1, 480, 768, 4096}
SurfaceCapabilities ==
    {c \in [current_extent : {Extent2D(640, 480), Extent2D(1024, 768),
                              Extent2D(U32_MAX, U32_MAX)},
            min_image_extent : {Extent2D(w, h) : w \in Widths, h \in Heights},
            max_image_extent : {Extent2D(w, h) : w \in Widths, h \in Heights},
            min_image_count : {1},
            max_image_count : {0}] :
        /\ c.min_image_extent.width <= c.max_image_extent.width
        /\ c.min_image_extent.height <= c.max_image_extent.height}

\* The image counts a surface may report: at least one image, and a most
\* that is not below the least, or 0 for no limit.
ImageCounts ==
    {c \in [min_image_count : 1..MaxImageCount,
            max_image_count : 0..MaxImageCount] :
        c.max_image_count = 0 \/ c.min_image_count <= c.max_image_count}

ImageCountCapabilities ==
    {[current_extent |-> Extent2D(U32_MAX, U32_MAX),
      min_image_extent |-> Extent2D(1, 1),
      max_image_extent |-> Extent2D(4096, 4096),
      min_image_count |-> c.min_image_count,
      max_image_count |-> c.max_image_count] : c \in ImageCounts}

\* The machines the life-cycle specification runs on.
GoodDevice ==
    [families |-> <<QueueFamily(1, TRUE, TRUE)>>,
     extensions |-> DEVICE_EXTENSIONS, has_formats |-> TRUE,
     has_present_modes |-> TRUE]
BadDevice == [GoodDevice EXCEPT !.extensions = {}]
MainLayers ==
    {<<>>, <<c_chars("VK_LAYER_LUNARG_api_dump"), c_chars(VALIDATION_LAYER)>>}
MainDevices == {<<>>, <<BadDevice>>, <<BadDevice, GoodDevice>>}
MainFormats ==
    {<<[format |-> "R8G8B8A8_UNORM", color_space |-> SRGB_NONLINEAR],
       [format |-> B8G8R8A8_SRGB, color_space |-> SRGB_NONLINEAR]>>}
MainPresentModes == {<<FIFO, MAILBOX>>}
\* A surface of exactly one image, and one of at least one image.
MainCapabilities ==
    {[current_extent |-> Extent2D(U32_MAX, U32_MAX),
      min_image_extent |-> Extent2D(1, 1),
      max_image_extent |-> Extent2D(4096, 4096),
      min_image_count |-> 1,
      max_image_count |-> most] : most \in {0, 1}}

\* -------------------------------------------------------------------- Init
\* What App::new has not touched yet, and the idle GPU.
Fresh ==
    /\ failures = {}
    /\ abort_msg = ""
    /\ destroyed = <<>>
    /\ stale = FALSE
    /\ surface_format = [format |-> "UNDEFINED", color_space |-> "UNDEFINED"]
    /\ swapchain_ci = <<>>
    /\ swapchain_extent = Extent2D(0, 0)
    /\ pipeline_ci = <<>>
    /\ image_view_cis = <<>>
    /\ framebuffer_cis = <<>>
    /\ swapchain_image = 0
    /\ command_buffers = <<>>
    /\ control_flow = "Poll"
    /\ redraw_requested = FALSE
    /\ last_event = [event |-> "none", key |-> "-", state |-> "-"]
    /\ frame = 0
    /\ calls = <<>>
    /\ image_state = <<>>
    /\ image_avaliable_signaled = FALSE
    /\ render_finished_signaled = FALSE
    /\ acquire_pending = {}
    /\ graphics_queue = <<>>
    /\ executing = FALSE
    /\ present_queue = <<>>
    /\ acquire_signalled = {}
    /\ color_started = {}
    /\ render_signalled = {}
    /\ present_started = {}

\* The state in which main() calls App::new, on a machine that enumerates
\* layers, devices and formats as given.
Init ==
    /\ instance_layers \in MainLayers
    /\ physical_devices \in MainDevices
    /\ avaliable_formats \in MainFormats
    /\ avaliable_present_modes \in MainPresentModes
    /\ capabilities \in MainCapabilities
    /\ pc = "entry"
    /\ created = <<>>
    /\ stages = <<>>
    /\ physical_device = None
    /\ queue_family_indices = [graphics_family |-> None, present_family |-> None]
    /\ device_ci = <<>>
    /\ device_queues = <<>>
    /\ Fresh

\* main() calls App::new on a machine with any layers within the bounds.
InitValidation ==
    /\ instance_layers \in SeqsUpTo(LayerNames, MaxLayers)
    /\ physical_devices \in MainDevices
    /\ avaliable_formats \in MainFormats
    /\ avaliable_present_modes \in MainPresentModes
    /\ capabilities \in MainCapabilities
    /\ pc = "entry"
    /\ created = <<>>
    /\ stages = <<>>
    /\ physical_device = None
    /\ queue_family_indices = [graphics_family |-> None, present_family |-> None]
    /\ device_ci = <<>>
    /\ device_queues = <<>>
    /\ Fresh

\* pick_physic_device on every machine: App::new has created the instance,
\* the debug messenger and the surface.
InitPick ==
    /\ instance_layers = <<c_chars(VALIDATION_LAYER)>>
    /\ physical_devices \in SeqsUpTo(PhysicalDevices, MaxDevices)
    /\ avaliable_formats \in MainFormats
    /\ avaliable_present_modes \in MainPresentModes
    /\ capabilities \in MainCapabilities
    /\ pc = "pick_physic_device"
    /\ created = <<instance, debug_utils_messenger, surface_khr>>
    /\ stages = <<"entry", "validation", "instance", "debug_messenger", "surface">>
    /\ physical_device = None
    /\ queue_family_indices = [graphics_family |-> None, present_family |-> None]
    /\ device_ci = <<>>
    /\ device_queues = <<>>
    /\ Fresh

\* pick_physic_device on a machine with one device, any of
\* SuitabilityDevices.
InitSuitable ==
    /\ instance_layers = <<c_chars(VALIDATION_LAYER)>>
    /\ physical_devices \in {<<d>> : d \in SuitabilityDevices}
    /\ avaliable_formats \in MainFormats
    /\ avaliable_present_modes \in MainPresentModes
    /\ capabilities \in MainCapabilities
    /\ pc = "pick_physic_device"
    /\ created = <<instance, debug_utils_messenger, surface_khr>>
    /\ stages = <<"entry", "validation", "instance", "debug_messenger", "surface">>
    /\ physical_device = None
    /\ queue_family_indices = [graphics_family |-> None, present_family |-> None]
    /\ device_ci = <<>>
    /\ device_queues = <<>>
    /\ Fresh

\* The state in which App::new calls create_swap_chain on the machine with
\* GoodDevice: it has picked the device and created the logical device.
AtCreateSwapChain ==
    /\ instance_layers = <<c_chars(VALIDATION_LAYER)>>
    /\ physical_devices = <<GoodDevice>>
    /\ pc = "create_swap_chain"
    /\ created = <<instance, debug_utils_messenger, surface_khr, device>>
    /\ stages = <<"entry", "validation", "instance", "debug_messenger", "surface",
                  "physical_device", "logical_device">>
    /\ physical_device = 1
    /\ queue_family_indices = find_queue_family(GoodDevice)
    /\ device_ci = <<DeviceCreateInfo(<<DeviceQueueCreateInfo(0)>>)>>
    /\ device_queues = <<DeviceQueue(0, 0), DeviceQueue(0, 0)>>
    /\ Fresh

\* create_swap_chain on every surface that reports a format.
InitFormat ==
    /\ avaliable_formats \in SeqsUpTo(SurfaceFormats, MaxFormats) \ {<<>>}
    /\ avaliable_present_modes \in MainPresentModes
    /\ capabilities \in MainCapabilities
    /\ AtCreateSwapChain

\* create_swap_chain on every surface that reports a present mode.
InitPresentMode ==
    /\ avaliable_formats \in MainFormats
    /\ avaliable_present_modes \in SeqsUpTo(PresentModes, MaxPresentModes) \ {<<>>}
    /\ capabilities \in MainCapabilities
    /\ AtCreateSwapChain

\* create_swap_chain on every surface of ImageCountCapabilities.
InitImageCount ==
    /\ avaliable_formats \in MainFormats
    /\ avaliable_present_modes \in MainPresentModes
    /\ capabilities \in ImageCountCapabilities
    /\ AtCreateSwapChain

\* create_swap_chain and the stages that use its extent, on every surface
\* capabilities of SurfaceCapabilities.
InitExtent ==
    /\ avaliable_formats \in MainFormats
    /\ avaliable_present_modes \in MainPresentModes
    /\ capabilities \in SurfaceCapabilities
    /\ AtCreateSwapChain

\* ----------------------------------------------------------------- startup
\* Where the thread is after a panic: no statement after the failed call runs.
panic == "panicked"

\* A stage of App::new is a sequence of native calls.  The first k succeed;
\* when k is short of the sequence, call k+1 fails and its expect() panics
\* with its message.  A call without a message cannot fail.
RunStageIgnoring(stage, native, k, next_pc, ignored) ==
    LET fails == k < Len(native)
        ok == SubSeq(native, 1, k)
        tried == IF fails THEN Append(ok, [native[k + 1] EXCEPT !.op = "failed"])
                 ELSE ok
        st == RunCalls([created |-> created, destroyed |-> destroyed,
                        stale |-> stale], tried)
    IN /\ fails => native[k + 1].msg # ""
       /\ created' = st.created
       /\ destroyed' = st.destroyed
       /\ stale' = st.stale
       /\ failures' = failures \cup ignored
                        \cup (IF fails THEN {native[k + 1].msg} ELSE {})
       /\ abort_msg' = IF fails THEN native[k + 1].msg ELSE abort_msg
       /\ pc' = IF fails THEN panic ELSE next_pc
       /\ stages' = Append(stages, stage)

RunStage(stage, native, k, next_pc) ==
    RunStageIgnoring(stage, native, k, next_pc, {})

EntryCalls ==
    <<Call("Entry::new", {}, "called Result::unwrap() on an Err value")>>

LoadEntry ==
    /\ pc = "entry"
    /\ \E k \in 0..Len(EntryCalls) : RunStage("entry", EntryCalls, k, "check_validation")
    /\ UNCHANGED <<envVars, appVars, loopVars, frame, calls, gpuVars>>

ValidationCalls ==
    <<Call("enumerate_instance_layer_properties", {},
           "Failed to enumerate Instance Layers Properties")>>
    \o (IF enable_validation
           /\ ~check_validation_layer_support(instance_layers, required_validation_layers)
        THEN <<Call("panic", {}, "validation layers requested, but not avaliable!")>>
        ELSE <<>>)

\* A panic!() is a call that always fails: the stage cannot get past it.
Reaches(native, k) ==
    \A j \in 1..k : native[j].op # "panic"

CheckValidation ==
    /\ pc = "check_validation"
    /\ \E k \in 0..Len(ValidationCalls) :
          /\ Reaches(ValidationCalls, k)
          /\ RunStage("validation", ValidationCalls, k, "create_vk_instance")
    /\ UNCHANGED <<envVars, appVars, loopVars, frame, calls, gpuVars>>

InstanceCalls == <<Create(instance, {}, "Failed to create instance")>>

CreateVkInstance ==
    /\ pc = "create_vk_instance"
    /\ \E k \in 0..Len(InstanceCalls) :
          RunStage("instance", InstanceCalls, k, "get_debug_messenger")
    /\ UNCHANGED <<envVars, appVars, loopVars, frame, calls, gpuVars>>

DebugMessengerCalls ==
    IF enable_validation
    THEN <<Create(debug_utils_messenger, {instance}, "Failed to set up debug messenger!")>>
    ELSE <<>>

GetDebugMessenger ==
    /\ pc = "get_debug_messenger"
    /\ \E k \in 0..Len(DebugMessengerCalls) :
          RunStage("debug_messenger", DebugMessengerCalls, k, "create_surface_stuff")
    /\ UNCHANGED <<envVars, appVars, loopVars, frame, calls, gpuVars>>

SurfaceCalls == <<Create(surface_khr, {instance}, "Failed to create surface.")>>

CreateSurfaceStuff ==
    /\ pc = "create_surface_stuff"
    /\ \E k \in 0..Len(SurfaceCalls) :
          RunStage("surface", SurfaceCalls, k, "pick_physic_device")
    /\ UNCHANGED <<envVars, appVars, loopVars, frame, calls, gpuVars>>

\* The native calls of find_queue_family, is_device_suitable and
\* query_swap_chain_support for one device.
FindQueueFamilyCalls(p_device) ==
    [j \in 1..families_queried(p_device) |->
        Call("get_physical_device_surface_support", {instance, surface_khr},
             "Failed to get physic device surface support")]

QuerySwapChainSupportCalls ==
    <<Call("get_physical_device_surface_capabilities", {instance, surface_khr},
           "Failed to query for surface capabilities."),
      Call("get_physical_device_surface_formats", {instance, surface_khr},
           "Failed to query for surface formats."),
      Call("get_physical_device_surface_present_modes", {instance, surface_khr},
           "Failed to query for surface present modes.")>>

IsDeviceSuitableCalls(p_device) ==
    FindQueueFamilyCalls(p_device)
    \o <<Call("enumerate_device_extension_properties", {instance},
              "Failed to get physical device extension properties")>>
    \o (IF check_physic_device_extension_support(p_device)
        THEN QuerySwapChainSupportCalls ELSE <<>>)

PickCalls ==
    <<Call("enumerate_physical_devices", {instance},
           "Failed to enumerate Physical Devices!")>>
    \o (IF Len(physical_devices) = 0
        THEN <<Call("panic", {}, "Failed to find GPUs with vulkan support.")>>
        ELSE Flatten([i \in 1..Len(physical_devices) |->
                         IsDeviceSuitableCalls(physical_devices[i])])
             \o (IF pick_physic_device(physical_devices) = None
                 THEN <<Call("panic", {}, "Failed to find a suitable GPU!")>>
                 ELSE <<>>))

PickPhysicDevice ==
    /\ pc = "pick_physic_device"
    /\ \E k \in 0..Len(PickCalls) :
          /\ Reaches(PickCalls, k)
          /\ RunStage("physical_device", PickCalls, k, "create_logic_device")
          /\ physical_device' = IF k = Len(PickCalls)
                                THEN pick_physic_device(physical_devices)
                                ELSE physical_device
    /\ UNCHANGED <<envVars, surface_format, swapchain_ci, swapchain_extent,
                   device_ci, pipeline_ci, image_view_cis, framebuffer_cis,
                   swapchain_image, queue_family_indices, device_queues,
                   command_buffers, loopVars, frame, calls, gpuVars>>

\* App::new, lines 1147-1157: the queue families of the device picked, the
\* logical device and its two queues.
LogicDeviceCalls ==
    FindQueueFamilyCalls(physical_devices[physical_device])
    \o <<Create(device, {instance}, "Failed to create logical device!"),
         Call("get_device_queue", {device}, ""),
         Call("get_device_queue", {device}, "")>>

\* The Vec device_queue_create_infos is filled in the order the HashSet
\* iterates, which the program does not control.
CreateLogicDevice ==
    /\ pc = "create_logic_device"
    /\ LET p_device == physical_devices[physical_device]
           indices == find_queue_family(p_device)
       IN \E k \in 0..Len(LogicDeviceCalls),
             order \in Orders(unique_queue_familes(indices)) :
             /\ RunStage("logical_device", LogicDeviceCalls, k, "create_swap_chain")
             /\ queue_family_indices' =
                   IF k >= families_queried(p_device)
                   THEN indices ELSE queue_family_indices
             /\ device_ci' =
                   IF k > families_queried(p_device)
                   THEN <<DeviceCreateInfo([j \in 1..Len(order) |->
                                              DeviceQueueCreateInfo(order[j])])>>
                   ELSE device_ci
             /\ device_queues' =
                   IF k = Len(LogicDeviceCalls)
                   THEN <<DeviceQueue(indices.graphics_family, 0),
                          DeviceQueue(indices.present_family, 0)>>
                   ELSE device_queues
    /\ UNCHANGED <<envVars, physical_device, surface_format, swapchain_ci,
                   swapchain_extent, pipeline_ci, image_view_cis, framebuffer_cis,
                   swapchain_image, command_buffers, loopVars, frame, calls,
                   gpuVars>>

SwapChainCalls ==
    QuerySwapChainSupportCalls
    \o (IF Len(avaliable_formats) = 0
        THEN <<Call("panic", {}, "called Option::unwrap() on a None value")>>
        ELSE <<>>)
    \o <<Create(swapchain_khr, {instance, device, surface_khr},
                "Failed to create swapchain."),
         Call("get_swapchain_images", {device, swapchain_khr},
              "Failed to get swapchain images.")>>

\* The fields of the SwapchainCreateInfoKHR that create_swap_chain chooses.
SwapchainCreateInfoKHR(count, format, extent, sharing, present_mode) ==
    [min_image_count |-> count,
     image_format |-> format.format,
     image_color_space |-> format.color_space,
     image_extent |-> extent,
     image_sharing_mode |-> sharing.image_sharing_mode,
     queue_family_index_count |-> sharing.queue_family_index_count,
     p_queue_family_indices |-> sharing.p_queue_family_indices,
     present_mode |-> present_mode]

\* The numbers of images a swapchain may have that was asked for count
\* images at least: count or more, within what the surface supports.  The
\* model lets the driver give more than asked up to MaxImages.
SwapchainImageCounts(count, surface) ==
    {n \in count..(IF count < MaxImages THEN MaxImages ELSE count) :
        surface.max_image_count > 0 => n <= surface.max_image_count}

\* The driver returns n images, at least as many as asked for.
CreateSwapChain ==
    /\ pc = "create_swap_chain"
    /\ \E k \in 0..Len(SwapChainCalls) :
       \E n \in IF k = Len(SwapChainCalls)
                THEN SwapchainImageCounts(image_count(capabilities), capabilities)
                ELSE {0} :
          /\ Reaches(SwapChainCalls, k)
          /\ RunStage("swapchain", SwapChainCalls, k, "create_image_views")
          /\ surface_format' =
                IF k >= Len(QuerySwapChainSupportCalls) /\ Len(avaliable_formats) > 0
                THEN choose_swap_surface_format(avaliable_formats)
                ELSE surface_format
          /\ swapchain_ci' =
                IF k >= Len(QuerySwapChainSupportCalls) /\ Len(avaliable_formats) > 0
                THEN <<SwapchainCreateInfoKHR(
                          image_count(capabilities),
                          choose_swap_surface_format(avaliable_formats),
                          choose_swap_extent(capabilities),
                          sharing_mode(queue_family_indices),
                          choose_swap_present_mode(avaliable_present_modes))>>
                ELSE swapchain_ci
          /\ swapchain_extent' = IF k = Len(SwapChainCalls)
                                 THEN choose_swap_extent(capabilities)
                                 ELSE swapchain_extent
          /\ swapchain_image' = IF k = Len(SwapChainCalls) THEN n ELSE swapchain_image
          /\ image_state' = IF k = Len(SwapChainCalls)
                            THEN [i \in 1..n |-> "free"] ELSE image_state
    /\ UNCHANGED <<envVars, physical_device, device_ci, pipeline_ci,
                   image_view_cis, framebuffer_cis, queue_family_indices, device_queues, command_buffers,
                   loopVars, frame, calls, image_avaliable_signaled,
                   render_finished_signaled, acquire_pending, graphics_queue,
                   executing, present_queue, acquire_signalled, color_started,
                   render_signalled, present_started>>

ImageViewCalls ==
    [i \in 1..swapchain_image |->
        Create(swapchain_image_views(swapchain_image)[i], {device, swapchain_khr},
               "Failed to create image view.")]

\* The ImageViewCreateInfo of the view of the i-th image of swapchain_image.
ImageViewCreateInfo(i) == [image |-> i, format |-> surface_format.format]

\* The loop pushes one view for every image, in the order of the images.
CreateImageViews ==
    /\ pc = "create_image_views"
    /\ \E k \in 0..Len(ImageViewCalls) :
          /\ RunStage("image_views", ImageViewCalls, k, "create_render_pass")
          /\ image_view_cis' = [i \in 1..k |-> ImageViewCreateInfo(i)]
    /\ UNCHANGED <<envVars, physical_device, surface_format, swapchain_ci,
                   swapchain_extent, device_ci, pipeline_ci, framebuffer_cis,
                   swapchain_image, queue_family_indices, device_queues,
                   command_buffers, loopVars, frame, calls, gpuVars>>

RenderPassCalls == <<Create(render_pass, {device}, "Failed to create render pass.")>>

CreateRenderPass ==
    /\ pc = "create_render_pass"
    /\ \E k \in 0..Len(RenderPassCalls) :
          RunStage("render_pass", RenderPassCalls, k, "create_graphics_pipeline")
    /\ UNCHANGED <<envVars, appVars, loopVars, frame, calls, gpuVars>>

\* create_graphics_pipeline forgetting to destroy its shader modules.
PipelineCallsLeak ==
    <<Call("File::open", {}, "Failed to open file at shader/spv/09_triangle.vert.spv"),
      Call("File::open", {}, "Failed to open file at shader/spv/09_triangle.frag.spv"),
      Create(vert_shader_module, {device}, "Failed to create shader modules."),
      Create(frag_shader_module, {device}, "Failed to create shader modules."),
      Create(pipeline_layout, {device}, "Failed create pipeline layout."),
      Create(graphic_pipeline,
             {device, vert_shader_module, frag_shader_module, pipeline_layout,
              render_pass},
             "Failed to create graphics pipeline")>>

\* create_graphics_pipeline: the two shader files are read, the modules, the
\* layout and the pipeline created, and the modules destroyed again.
PipelineCalls ==
    <<Call("File::open", {}, "Failed to open file at shader/spv/09_triangle.vert.spv"),
      Call("File::open", {}, "Failed to open file at shader/spv/09_triangle.frag.spv"),
      Create(vert_shader_module, {device}, "Failed to create shader modules."),
      Create(frag_shader_module, {device}, "Failed to create shader modules."),
      Create(pipeline_layout, {device}, "Failed create pipeline layout."),
      Create(graphic_pipeline,
             {device, vert_shader_module, frag_shader_module, pipeline_layout,
              render_pass},
             "Failed to create graphics pipeline"),
      Destroy(vert_shader_module, {device}),
      Destroy(frag_shader_module, {device})>>

\* The read errors read_shader_code drops: the file of the k-th open is read
\* once that open has succeeded.
ReadErrors(file, opened) ==
    IF opened /\ Len(read_shader_code(file)) < Len(file)
    THEN {"Failed to read a byte of a shader file"} ELSE {}

\* vk::Viewport of an extent: width and height `as f32`.
Viewport(extent) ==
    [x |-> 0, y |-> 0, width |-> as_f32(extent.width),
     height |-> as_f32(extent.height)]

\* The GraphicsPipelineCreateInfo: no vertex input; viewport and scissor of
\* the swapchain's extent.
GraphicsPipelineCreateInfo ==
    [vertex_binding_description_count |-> 0,
     vertex_attribute_description_count |-> 0,
     viewports |-> <<Viewport(swapchain_extent)>>,
     scissors |-> <<swapchain_extent>>]

\* The place of create_graphics_pipelines in PipelineCalls.
PipelineCreated(k) ==
    \E j \in 1..k : PipelineCalls[j].op = "create" /\ PipelineCalls[j].h = graphic_pipeline

CreateGraphicsPipeline ==
    /\ pc = "create_graphics_pipeline"
    /\ \E k \in 0..Len(PipelineCalls), vert \in ShaderFiles, frag \in ShaderFiles :
          /\ RunStageIgnoring("pipeline", PipelineCalls, k, "create_framebuffer",
                              ReadErrors(vert, k >= 1) \cup ReadErrors(frag, k >= 2))
          /\ pipeline_ci' = IF PipelineCreated(k)
                            THEN <<GraphicsPipelineCreateInfo>> ELSE pipeline_ci
    /\ UNCHANGED <<envVars, physical_device, surface_format, swapchain_ci,
                   swapchain_extent, device_ci, image_view_cis, framebuffer_cis,
                   swapchain_image,
                   queue_family_indices, device_queues, command_buffers,
                   loopVars, frame, calls, gpuVars>>

\* One framebuffer for every image view of swapchain_image_views.
FramebufferCalls ==
    [i \in 1..Len(image_view_cis) |->
        Create(swapchain_framebuffers(Len(image_view_cis))[i],
               {device, render_pass, swapchain_image_views(Len(image_view_cis))[i]},
               "Failed to create framebuffer.")]

\* The FramebufferCreateInfo of the framebuffer of image view i.
FramebufferCreateInfo(i) ==
    [attachments |-> <<swapchain_image_views(Len(image_view_cis))[i]>>,
     width |-> swapchain_extent.width,
     height |-> swapchain_extent.height,
     layers |-> 1]

\* App::new going from the framebuffers straight to the semaphores.
CreateFramebufferThenSemaphores ==
    /\ pc = "create_framebuffer"
    /\ \E k \in 0..Len(FramebufferCalls) :
          /\ RunStage("framebuffers", FramebufferCalls, k, "create_semaphore")
          /\ framebuffer_cis' = [i \in 1..k |-> FramebufferCreateInfo(i)]
    /\ UNCHANGED <<envVars, physical_device, surface_format, swapchain_ci,
                   swapchain_extent, device_ci, pipeline_ci, image_view_cis,
                   swapchain_image,
                   queue_family_indices, device_queues, command_buffers,
                   loopVars, frame, calls, gpuVars>>

CreateFramebuffer ==
    /\ pc = "create_framebuffer"
    /\ \E k \in 0..Len(FramebufferCalls) :
          /\ RunStage("framebuffers", FramebufferCalls, k, "create_command_pool")
          /\ framebuffer_cis' = [i \in 1..k |-> FramebufferCreateInfo(i)]
    /\ UNCHANGED <<envVars, physical_device, surface_format, swapchain_ci,
                   swapchain_extent, device_ci, pipeline_ci, image_view_cis,
                   swapchain_image,
                   queue_family_indices, device_queues, command_buffers,
                   loopVars, frame, calls, gpuVars>>

CommandPoolCalls == <<Create(command_pool, {device}, "Failed to create command pool.")>>

CreateCommandPool ==
    /\ pc = "create_command_pool"
    /\ \E k \in 0..Len(CommandPoolCalls) :
          RunStage("command_pool", CommandPoolCalls, k, "create_command_buffers")
    /\ UNCHANGED <<envVars, appVars, loopVars, frame, calls, gpuVars>>

\* create_command_buffers ending the render pass before the draw.
RecordCallsDrawOutside(idx) ==
    <<Call("begin_command_buffer", {device, command_pool},
           "Failed to begin command buffer."),
      Call("cmd_begin_render_pass",
           {device, command_pool, render_pass,
            swapchain_framebuffers(Len(framebuffer_cis))[idx]}, ""),
      Call("cmd_bind_pipeline", {device, command_pool, graphic_pipeline}, ""),
      Call("cmd_set_viewport", {device, command_pool}, ""),
      Call("cmd_end_render_pass", {device, command_pool}, ""),
      Call("cmd_draw", {device, command_pool}, ""),
      Call("end_command_buffer", {device, command_pool},
           "Failed to end command buffer.")>>

\* What create_command_buffers records into the buffer of framebuffer idx.
RecordCalls(idx) ==
    <<Call("begin_command_buffer", {device, command_pool},
           "Failed to begin command buffer."),
      Call("cmd_begin_render_pass",
           {device, command_pool, render_pass,
            swapchain_framebuffers(Len(framebuffer_cis))[idx]}, ""),
      Call("cmd_bind_pipeline", {device, command_pool, graphic_pipeline}, ""),
      Call("cmd_set_viewport", {device, command_pool}, ""),
      Call("cmd_draw", {device, command_pool}, ""),
      Call("cmd_end_render_pass", {device, command_pool}, ""),
      Call("end_command_buffer", {device, command_pool},
           "Failed to end command buffer.")>>

\* device.cmd_draw(cmd, 3, 1, 0, 0)
cmd_draw ==
    [vertex_count |-> 3, instance_count |-> 1, first_vertex |-> 0,
     first_instance |-> 0]

CommandBufferCalls ==
    <<Call("allocate_command_buffers", {device, command_pool},
           "Failed to allocate command buffers.")>>
    \o Flatten([idx \in 1..swapchain_image |-> RecordCalls(idx)])

CreateCommandBuffers ==
    /\ pc = "create_command_buffers"
    /\ \E k \in 0..Len(CommandBufferCalls) :
          /\ RunStage("command_buffers", CommandBufferCalls, k, "create_semaphore")
          /\ command_buffers' =
                IF k = Len(CommandBufferCalls)
                THEN [idx \in 1..swapchain_image |->
                        [framebuffer |-> idx,
                         commands |-> [j \in 1..Len(RecordCalls(idx)) |->
                                          RecordCalls(idx)[j].op],
                         render_area |-> swapchain_extent,
                         viewports |-> <<Viewport(swapchain_extent)>>,
                         draw |-> cmd_draw,
                         recorded |-> 1]]
                ELSE command_buffers
    /\ UNCHANGED <<envVars, physical_device, surface_format, swapchain_ci,
                   swapchain_extent, device_ci, pipeline_ci, image_view_cis,
                   framebuffer_cis, swapchain_image, queue_family_indices,
                   device_queues,
                   loopVars, frame, calls, gpuVars>>

SemaphoreCalls ==
    <<Create(image_avaliable_semaphore, {device}, "Failed to create semaphore."),
      Create(render_finished_semaphore, {device}, "Failed to create semaphore.")>>

CreateSemaphore ==
    /\ pc = "create_semaphore"
    /\ \E k \in 0..Len(SemaphoreCalls) :
          RunStage("semaphores", SemaphoreCalls, k, "event_loop")
    /\ UNCHANGED <<envVars, appVars, loopVars, frame, calls, gpuVars>>

\* -------------------------------------------------------------- event loop
\* A handler that could run while draw_frame is between two native calls.
HandlerReentrant == pc \in {"event_loop", "queue_submit"}

\* event_loop.run calls the closure for one event at a time, on the one
\* thread: the handler runs only while no handler is running.
HandlerIdle == pc = "event_loop"

Event(e, key, state) == [event |-> e, key |-> key, state |-> state]

CloseRequested ==
    /\ HandlerIdle
    /\ control_flow' = "Exit"
    /\ last_event' = Event("CloseRequested", "-", "-")
    /\ UNCHANGED <<envVars, pc, failures, abort_msg, handleVars, stages, appVars,
                   redraw_requested, frame, calls, gpuVars>>

\* A handler that takes the release of Escape for its press.
KeyboardInputAnyState ==
    /\ HandlerIdle
    /\ \E key \in {"Escape", "Space"}, state \in {"Pressed", "Released"} :
          /\ control_flow' = IF key = "Escape" THEN "Exit" ELSE control_flow
          /\ last_event' = Event("KeyboardInput", key, state)
    /\ UNCHANGED <<envVars, pc, failures, abort_msg, handleVars, stages, appVars,
                   redraw_requested, frame, calls, gpuVars>>

KeyboardInput ==
    /\ HandlerIdle
    /\ \E key \in {"Escape", "Space"}, state \in {"Pressed", "Released"} :
          /\ control_flow' = IF key = "Escape" /\ state = "Pressed"
                             THEN "Exit" ELSE control_flow
          /\ last_event' = Event("KeyboardInput", key, state)
    /\ UNCHANGED <<envVars, pc, failures, abort_msg, handleVars, stages, appVars,
                   redraw_requested, frame, calls, gpuVars>>

MainEventsCleared ==
    /\ HandlerIdle
    /\ redraw_requested' = TRUE
    /\ last_event' = Event("MainEventsCleared", "-", "-")
    /\ UNCHANGED <<envVars, pc, failures, abort_msg, handleVars, stages, appVars,
                   control_flow, frame, calls, gpuVars>>

\* Any event of the last arm, _ => ().
OtherEvent ==
    /\ HandlerIdle
    /\ last_event' = Event("NewEvents", "-", "-")
    /\ UNCHANGED <<envVars, pc, failures, abort_msg, handleVars, stages, appVars,
                   control_flow, redraw_requested, frame, calls, gpuVars>>

\* RedrawRequested: the handler calls draw_frame.
RedrawRequested ==
    /\ HandlerIdle
    /\ redraw_requested
    /\ frame < MaxFrames
    /\ redraw_requested' = FALSE
    /\ last_event' = Event("RedrawRequested", "-", "-")
    /\ frame' = frame + 1
    /\ stages' = Append(stages, "draw_frame")
    /\ pc' = "acquire_next_image"
    /\ UNCHANGED <<envVars, failures, abort_msg, handleVars, appVars, control_flow,
                   calls, gpuVars>>

\* With the control flow at Exit the loop ends and drops the closure.
LoopExit ==
    /\ HandlerIdle
    /\ control_flow = "Exit"
    /\ pc' = "exit"
    /\ UNCHANGED <<envVars, failures, abort_msg, handleVars, stages, appVars,
                   loopVars, frame, calls, gpuVars>>

\* -------------------------------------------------------------- draw_frame
\* draw_frame starting over from the acquisition when a call fails.
draw_retry(ok, next_pc) == IF ok THEN next_pc ELSE "acquire_next_image"

\* Where draw_frame goes on after a native call: on, or into the panic of
\* the expect() around the call.
draw_expect(ok, next_pc) == IF ok THEN next_pc ELSE panic

\* One native call of draw_frame: it is logged, and on failure its expect()
\* panics.
DrawCallResult(c, result, image, buffers, next_pc) ==
    LET st == RunCall([created |-> created, destroyed |-> destroyed,
                       stale |-> stale], c)
        ok == result = "SUCCESS"
    IN /\ calls' = Append(calls, [frame |-> frame, op |-> c.op, ok |-> ok,
                                  result |-> result, image |-> image,
                                  command_buffers |-> buffers])
       /\ stale' = st.stale
       /\ UNCHANGED <<created, destroyed>>
       /\ failures' = IF ok THEN failures ELSE failures \cup {c.msg}
       /\ abort_msg' = IF ok THEN abort_msg ELSE c.msg
       /\ pc' = draw_expect(ok, next_pc)

DrawCall(c, ok, image, buffers, next_pc) ==
    DrawCallResult(c, IF ok THEN "SUCCESS" ELSE "ERROR", image, buffers, next_pc)

\* The image of the frame being drawn: the one its acquisition returned.
image_idx == calls[Len(calls)].image

AcquireCall ==
    Call("acquire_next_image", {device, swapchain_khr, image_avaliable_semaphore},
         "Failed to acquire next image.")

\* std::u64::MAX, the timeout that never ends.  Only equality with it and
\* with 0 is used; the largest integer of the model stands for it.
U64_MAX == 2147483647

\* An acquisition with a timeout that ends.
acquire_timeout_bounded == U64_MAX - 1

\* The timeout draw_frame hands to acquire_next_image.
acquire_timeout == U64_MAX

FreeImages == {i \in 1..swapchain_image : image_state[i] = "free"}

\* The results with which acquire_next_image may return an Err while no
\* image can be acquired: NOT_READY at once with a timeout of 0, TIMEOUT when
\* a bounded timeout ends, neither with u64::MAX; an error of the device or
\* the surface at any time.
acquire_errors(timeout) ==
    {"ERROR"}
    \cup (IF FreeImages # {} \/ timeout = U64_MAX THEN {}
          ELSE IF timeout = 0 THEN {"NOT_READY"} ELSE {"TIMEOUT"})

\* acquire_next_image with timeout u64::MAX returns once an image can be
\* acquired; the semaphore is signalled later, when the image is ready.
AcquireNextImage ==
    /\ pc = "acquire_next_image"
    /\ \/ \E i \in FreeImages :
             /\ DrawCall(AcquireCall, TRUE, i, <<>>, "queue_submit")
             /\ image_state' = [image_state EXCEPT ![i] = "acquired"]
             /\ acquire_pending' = acquire_pending \cup {frame}
       \/ \E result \in acquire_errors(acquire_timeout) :
             /\ DrawCallResult(AcquireCall, result, None, <<>>, "queue_submit")
             /\ UNCHANGED <<image_state, acquire_pending>>
    /\ UNCHANGED <<envVars, stages, appVars, loopVars, frame,
                   image_avaliable_signaled, render_finished_signaled,
                   graphics_queue, executing, present_queue, acquire_signalled,
                   color_started, render_signalled, present_started>>

SubmitCall ==
    Call("queue_submit",
         {device, command_pool, image_avaliable_semaphore, render_finished_semaphore},
         "Failed to queue submit.")

\* draw_frame submitting the command buffer of the image after the acquired
\* one.
submitted_buffers_next == <<(image_idx % swapchain_image) + 1>>

\* The command buffers of the one SubmitInfo: command_buffers[image_idx].
submitted_buffers == <<image_idx>>

QueueSubmit ==
    /\ pc = "queue_submit"
    /\ \/ /\ DrawCall(SubmitCall, TRUE, image_idx, submitted_buffers, "queue_present")
          /\ graphics_queue' = Append(graphics_queue, frame)
       \/ /\ DrawCall(SubmitCall, FALSE, image_idx, submitted_buffers, "queue_present")
          /\ UNCHANGED graphics_queue
    /\ UNCHANGED <<envVars, stages, appVars, loopVars, frame, image_state,
                   image_avaliable_signaled, render_finished_signaled,
                   acquire_pending, executing, present_queue, acquire_signalled,
                   color_started, render_signalled, present_started>>

PresentCall ==
    Call("queue_present", {device, swapchain_khr, render_finished_semaphore},
         "Failed to queue present.")

QueuePresent ==
    /\ pc = "queue_present"
    /\ \/ /\ DrawCall(PresentCall, TRUE, image_idx, <<>>, "event_loop")
          /\ present_queue' = Append(present_queue, frame)
          /\ image_state' = [image_state EXCEPT ![image_idx] = "queued"]
       \/ /\ DrawCall(PresentCall, FALSE, image_idx, <<>>, "event_loop")
          /\ UNCHANGED <<present_queue, image_state>>
    /\ UNCHANGED <<envVars, stages, appVars, loopVars, frame,
                   image_avaliable_signaled, render_finished_signaled,
                   acquire_pending, graphics_queue, executing, acquire_signalled,
                   color_started, render_signalled, present_started>>

\* --------------------------------------------------------------------- GPU
\* The device works for as long as it exists.
DeviceAlive == device \in Live(created, destroyed)

\* The image of frame f.
FrameImage(f) ==
    calls[CHOOSE j \in 1..Len(calls) :
            calls[j].frame = f /\ calls[j].op = "acquire_next_image"].image

\* The presentation engine signals the semaphore of an acquisition.
SignalImageAvaliable ==
    /\ DeviceAlive
    /\ \E f \in acquire_pending :
          /\ acquire_pending' = acquire_pending \ {f}
          /\ acquire_signalled' = acquire_signalled \cup {f}
    /\ image_avaliable_signaled' = TRUE
    /\ UNCHANGED <<envVars, pc, failures, abort_msg, handleVars, stages, appVars,
                   loopVars, frame, calls, image_state, render_finished_signaled,
                   graphics_queue, executing, present_queue, color_started,
                   render_signalled, present_started>>

\* The oldest batch waits for image-available at COLOR_ATTACHMENT_OUTPUT.
StartColorOutput ==
    /\ DeviceAlive
    /\ graphics_queue # <<>>
    /\ ~executing
    /\ image_avaliable_signaled
    /\ image_avaliable_signaled' = FALSE
    /\ executing' = TRUE
    /\ color_started' = color_started \cup {Head(graphics_queue)}
    /\ UNCHANGED <<envVars, pc, failures, abort_msg, handleVars, stages, appVars,
                   loopVars, frame, calls, image_state, render_finished_signaled,
                   acquire_pending, graphics_queue, present_queue,
                   acquire_signalled, render_signalled, present_started>>

\* The batch completes and signals render-finished.
FinishBatch ==
    /\ DeviceAlive
    /\ executing
    /\ executing' = FALSE
    /\ render_finished_signaled' = TRUE
    /\ render_signalled' = render_signalled \cup {Head(graphics_queue)}
    /\ graphics_queue' = Tail(graphics_queue)
    /\ UNCHANGED <<envVars, pc, failures, abort_msg, handleVars, stages, appVars,
                   loopVars, frame, calls, image_state, image_avaliable_signaled,
                   acquire_pending, present_queue, acquire_signalled,
                   color_started, present_started>>

\* The oldest present request waits for render-finished.
StartPresent ==
    /\ DeviceAlive
    /\ present_queue # <<>>
    /\ render_finished_signaled
    /\ render_finished_signaled' = FALSE
    /\ present_started' = present_started \cup {Head(present_queue)}
    /\ image_state' = [image_state EXCEPT ![FrameImage(Head(present_queue))] =
                          "presented"]
    /\ present_queue' = Tail(present_queue)
    /\ UNCHANGED <<envVars, pc, failures, abort_msg, handleVars, stages, appVars,
                   loopVars, frame, calls, image_avaliable_signaled,
                   acquire_pending, graphics_queue, executing, acquire_signalled,
                   color_started, render_signalled>>

\* The presentation engine is done with an image.
ReleaseImage ==
    /\ DeviceAlive
    /\ \E i \in 1..swapchain_image :
          /\ image_state[i] = "presented"
          /\ image_state' = [image_state EXCEPT ![i] = "free"]
    /\ UNCHANGED <<envVars, pc, failures, abort_msg, handleVars, stages, appVars,
                   loopVars, frame, calls, image_avaliable_signaled,
                   render_finished_signaled, acquire_pending, graphics_queue,
                   executing, present_queue, acquire_signalled, color_started,
                   render_signalled, present_started>>

\* ---------------------------------------------------------------- teardown
\* Drop destroying the pipeline layout before the pipeline.
DropCallsLayoutFirst ==
    <<Call("device_wait_idle", {device}, "Failed to wait device idle"),
      Destroy(image_avaliable_semaphore, {device}),
      Destroy(render_finished_semaphore, {device}),
      Destroy(command_pool, {device})>>
    \o [i \in 1..Len(framebuffer_cis) |->
           Destroy(swapchain_framebuffers(Len(framebuffer_cis))[i], {device})]
    \o <<Destroy(pipeline_layout, {device}),
         Destroy(graphic_pipeline, {device}),
         Destroy(render_pass, {device})>>
    \o [i \in 1..Len(image_view_cis) |->
           Destroy(swapchain_image_views(Len(image_view_cis))[i], {device})]
    \o <<Destroy(swapchain_khr, {device}),
         Destroy(device, {}),
         Destroy(surface_khr, {instance}),
         Destroy(debug_utils_messenger, {instance}),
         Destroy(instance, {})>>

\* Drop destroying the device before the swapchain.
DropCallsDeviceFirst ==
    <<Call("device_wait_idle", {device}, "Failed to wait device idle"),
      Destroy(image_avaliable_semaphore, {device}),
      Destroy(render_finished_semaphore, {device}),
      Destroy(command_pool, {device})>>
    \o [i \in 1..Len(framebuffer_cis) |->
           Destroy(swapchain_framebuffers(Len(framebuffer_cis))[i], {device})]
    \o <<Destroy(graphic_pipeline, {device}),
         Destroy(pipeline_layout, {device}),
         Destroy(render_pass, {device})>>
    \o [i \in 1..Len(image_view_cis) |->
           Destroy(swapchain_image_views(Len(image_view_cis))[i], {device})]
    \o <<Destroy(device, {}),
         Destroy(swapchain_khr, {}),
         Destroy(surface_khr, {instance}),
         Destroy(debug_utils_messenger, {instance}),
         Destroy(instance, {})>>

\* Drop destroying at once, without waiting for the device.
DropCallsNoWait ==
    <<Destroy(image_avaliable_semaphore, {device}),
      Destroy(render_finished_semaphore, {device}),
      Destroy(command_pool, {device})>>
    \o [i \in 1..Len(framebuffer_cis) |->
           Destroy(swapchain_framebuffers(Len(framebuffer_cis))[i], {device})]
    \o <<Destroy(graphic_pipeline, {device}),
         Destroy(pipeline_layout, {device}),
         Destroy(render_pass, {device})>>
    \o [i \in 1..Len(image_view_cis) |->
           Destroy(swapchain_image_views(Len(image_view_cis))[i], {device})]
    \o <<Destroy(swapchain_khr, {device}),
         Destroy(device, {}),
         Destroy(surface_khr, {instance}),
         Destroy(debug_utils_messenger, {instance}),
         Destroy(instance, {})>>

\* Drop for App, call by call.
DropCalls ==
    <<Call("device_wait_idle", {device}, "Failed to wait device idle"),
      Destroy(image_avaliable_semaphore, {device}),
      Destroy(render_finished_semaphore, {device}),
      Destroy(command_pool, {device})>>
    \o [i \in 1..Len(framebuffer_cis) |->
           Destroy(swapchain_framebuffers(Len(framebuffer_cis))[i], {device})]
    \o <<Destroy(graphic_pipeline, {device}),
         Destroy(pipeline_layout, {device}),
         Destroy(render_pass, {device})>>
    \o [i \in 1..Len(image_view_cis) |->
           Destroy(swapchain_image_views(Len(image_view_cis))[i], {device})]
    \o <<Destroy(swapchain_khr, {device}),
         Destroy(device, {}),
         Destroy(surface_khr, {instance})>>
    \o (IF enable_validation
        THEN <<Destroy(debug_utils_messenger, {instance})>> ELSE <<>>)
    \o <<Destroy(instance, {})>>

\* App exists once App::new has returned.
AppConstructed == render_finished_semaphore \in Range(created)

\* device_wait_idle returns once no queue has work left.
DeviceIdle == graphics_queue = <<>> /\ present_queue = <<>>

\* The first k calls of native hold a device_wait_idle that has returned.
WaitedIdle(native, k) == \E j \in 1..k : native[j].op = "device_wait_idle"

\* The closure, and App with it, is dropped when the loop ends, or by the
\* unwinding of a panic in draw_frame.  The calls after device_wait_idle
\* run once it has returned, and so once the device is idle.
Drop ==
    /\ \/ pc = "exit"
       \/ pc = panic /\ AppConstructed /\ "drop" \notin Range(stages)
    /\ \E k \in {0, Len(DropCalls)} :
          /\ WaitedIdle(DropCalls, k) => DeviceIdle
          /\ RunStage("drop", DropCalls, k, IF pc = "exit" THEN "done" ELSE panic)
    /\ UNCHANGED <<envVars, appVars, loopVars, frame, calls, gpuVars>>

\* ----------------------------------------------------------- specification
Next ==
    \/ LoadEntry
    \/ CheckValidation
    \/ CreateVkInstance
    \/ GetDebugMessenger
    \/ CreateSurfaceStuff
    \/ PickPhysicDevice
    \/ CreateLogicDevice
    \/ CreateSwapChain
    \/ CreateImageViews
    \/ CreateRenderPass
    \/ CreateGraphicsPipeline
    \/ CreateFramebuffer
    \/ CreateCommandPool
    \/ CreateCommandBuffers
    \/ CreateSemaphore
    \/ CloseRequested
    \/ KeyboardInput
    \/ MainEventsCleared
    \/ OtherEvent
    \/ RedrawRequested
    \/ LoopExit
    \/ AcquireNextImage
    \/ QueueSubmit
    \/ QueuePresent
    \/ SignalImageAvaliable
    \/ StartColorOutput
    \/ FinishBatch
    \/ StartPresent
    \/ ReleaseImage
    \/ Drop

Spec == Init /\ [][Next]_vars

\* Drop for App on an idle device: device_wait_idle returns.
DropReturns == DeviceIdle /\ Drop

\* The thread goes on for as long as it has a next statement, a call that
\* blocks returns once what it waits for is there, and the GPU goes on with
\* the work it can do.  No call is bound to fail.
Fairness ==
    /\ WF_vars(LoopExit)
    /\ WF_vars(AcquireNextImage)
    /\ WF_vars(QueueSubmit)
    /\ WF_vars(QueuePresent)
    /\ WF_vars(DropReturns)
    /\ WF_vars(SignalImageAvaliable)
    /\ WF_vars(StartColorOutput)
    /\ WF_vars(FinishBatch)
    /\ WF_vars(StartPresent)
    /\ WF_vars(ReleaseImage)

SpecLive == Spec /\ Fairness

\* The beginning of App::new, up to the instance, over every enumeration of
\* layers within the bounds.
NextValidation ==
    \/ LoadEntry
    \/ CheckValidation
    \/ CreateVkInstance
    \/ GetDebugMessenger

SpecValidation == InitValidation /\ [][NextValidation]_vars

\* pick_physic_device alone, over every enumeration within the bounds.
SpecPick == InitPick /\ [][PickPhysicDevice]_vars

\* create_swap_chain alone, over every format list within the bounds.
SpecFormat == InitFormat /\ [][CreateSwapChain]_vars

\* create_swap_chain alone, over every list of present modes within the
\* bounds.
SpecPresentMode == InitPresentMode /\ [][CreateSwapChain]_vars

\* create_swap_chain alone, over the image counts of a surface within the
\* bounds.
SpecImageCount == InitImageCount /\ [][CreateSwapChain]_vars

\* The stages of App::new that choose and use the extent.
NextExtent ==
    \/ CreateSwapChain
    \/ CreateImageViews
    \/ CreateRenderPass
    \/ CreateGraphicsPipeline
    \/ CreateFramebuffer
    \/ CreateCommandPool
    \/ CreateCommandBuffers

SpecExtent == InitExtent /\ [][NextExtent]_vars

\* pick_physic_device, the creation of the logical device and of the
\* swapchain, over every enumeration of devices within the bounds.
NextDevice ==
    \/ PickPhysicDevice
    \/ CreateLogicDevice
    \/ CreateSwapChain

SpecDevice == InitPick /\ [][NextDevice]_vars

\* The same stages on a machine with one device, over every device of
\* SuitabilityDevices.
SpecSuitable == InitSuitable /\ [][NextDevice]_vars

\* ------------------------------------------------------------------ claims
FrameCalls(f) == SelectSeq(calls, LAMBDA c : c.frame = f)
Ops(cs) == [j \in 1..Len(cs) |-> cs[j].op]
DrawOps == <<"acquire_next_image", "queue_submit", "queue_present">>
InDrawFrame == pc \in {"acquire_next_image", "queue_submit", "queue_present"}

\* draw_frame call f has returned to the event loop.
Returned(f) ==
    \/ f < frame
    \/ f = frame /\ pc \in {"event_loop", "exit", "done"}

\* The native calls of every draw_frame call are a beginning of acquire,
\* submit, present, all of it once the call has returned; the submission
\* carries one command buffer, recorded once, at startup; the image presented
\* is the image acquired; the calls of two frames do not interleave.
FrameCallsInOrder ==
    /\ \A f \in 1..frame :
          LET cs == FrameCalls(f)
          IN /\ Len(cs) <= Len(DrawOps)
             /\ Ops(cs) = SubSeq(DrawOps, 1, Len(cs))
             /\ Returned(f) =>
                   /\ Len(cs) = Len(DrawOps)
                   /\ \A j \in 1..Len(cs) : cs[j].ok
                   /\ Len(cs[2].command_buffers) = 1
                   /\ cs[2].command_buffers[1] \in 1..Len(command_buffers)
                   /\ cs[3].image = cs[1].image
    /\ \A i, j \in 1..Len(calls) : i < j => calls[i].frame <= calls[j].frame
    /\ \A f \in {calls[j].frame : j \in 1..Len(calls)} : f \in 1..frame
    /\ \A b \in 1..Len(command_buffers) : command_buffers[b].recorded = 1

\* While draw_frame runs, no event handler runs, no second draw_frame starts
\* and nothing is recorded.
NoHandlerInsideDrawFrame ==
    InDrawFrame =>
        /\ last_event' = last_event
        /\ control_flow' = control_flow
        /\ redraw_requested' = redraw_requested
        /\ frame' = frame
        /\ command_buffers' = command_buffers

\* C1: every draw_frame call that returns has performed, in this order and
\* with no other event handler in between, one acquisition, one submission
\* of one prerecorded command buffer and one presentation of the acquired
\* image; draw_frame records nothing and two calls never overlap.
C1_DrawFrameSequence ==
    []FrameCallsInOrder /\ [][NoHandlerInsideDrawFrame]_vars

\* Two draw_frame calls have returned, the second issued while the GPU had
\* not finished the first.
C1_Witness ==
    /\ frame = 2
    /\ pc = "event_loop"
    /\ Len(calls) = 6
    /\ 1 \notin render_signalled

\* C2: the GPU starts the color attachment output of a frame only after that
\* frame's acquisition has signalled image-available, and the presentation
\* of a frame starts only after that frame's batch has signalled
\* render-finished.
C2_SemaphoreOrdering ==
    /\ \A f \in color_started : f \in acquire_signalled
    /\ \A f \in present_started : f \in render_signalled

\* The place of handle h in a sequence of handles that holds it.
Pos(seq, h) == CHOOSE i \in 1..Len(seq) : seq[i] = h
Before(seq, a, b) == Pos(seq, a) < Pos(seq, b)
Count(seq, h) == Cardinality({i \in 1..Len(seq) : seq[i] = h})

\* Drop for App has run to its end.
TeardownDone == instance \in Range(destroyed)

\* The handles App holds: all that App::new created but the shader modules,
\* which create_graphics_pipeline destroys itself.
Held == Range(created) \ {vert_shader_module, frag_shader_module}

\* Handles App holds several of, or a pair of: the framebuffers, the image
\* views, the two semaphores.
Semaphores == {image_avaliable_semaphore, render_finished_semaphore}
SameGroup(a, b) ==
    \/ a[1] = b[1] /\ a[1] \in {"framebuffer", "image_view"}
    \/ {a, b} \subseteq Semaphores

\* C3 as stated: teardown destroys the handles App holds in the exact
\* reverse of the order of their creation.
C3_ExactReverseOrder ==
    TeardownDone =>
        \A a, b \in Held : Before(created, a, b) => Before(destroyed, b, a)

\* C3, amended: teardown destroys the handles App holds in the reverse of
\* the order of their creation, except that the two semaphores among
\* themselves, the framebuffers among themselves and the image views among
\* themselves are destroyed in the order of their creation.
C3_ReverseOrderBetweenGroups ==
    TeardownDone =>
        \A a, b \in Held :
            Before(created, a, b) =>
                IF SameGroup(a, b) THEN Before(destroyed, a, b)
                ELSE Before(destroyed, b, a)

\* Teardown has ended for an App with two images, so two framebuffers and
\* two image views.
C3_Witness == TeardownDone /\ swapchain_image = 2 /\ pc = "done"

DeviceChildren ==
    {h \in Range(created) :
        h[1] \in {"image_avaliable_semaphore", "render_finished_semaphore",
                  "command_pool", "framebuffer", "graphic_pipeline",
                  "pipeline_layout", "render_pass", "image_view", "swapchain_khr"}}
InstanceChildren ==
    {h \in Range(created) : h[1] \in {"device", "surface_khr", "debug_utils_messenger"}}

\* C4: the device is destroyed after every semaphore, command pool,
\* framebuffer, pipeline, pipeline layout, render pass, image view and
\* swapchain created; the instance after the device, the surface and the
\* debug messenger.
C4_ChildrenBeforeOwner ==
    /\ device \in Range(destroyed) =>
          \A h \in DeviceChildren :
              h \in Range(destroyed) /\ Before(destroyed, h, device)
    /\ instance \in Range(destroyed) =>
          \A h \in InstanceChildren :
              h \in Range(destroyed) /\ Before(destroyed, h, instance)

\* Teardown has ended after a frame was drawn.
C4_Witness ==
    /\ TeardownDone
    /\ frame >= 1
    /\ Cardinality(DeviceChildren) = 7 + 2 * swapchain_image

\* The handles App::new creates when the swapchain returns n images.
AllHandles(n) ==
    {instance, debug_utils_messenger, surface_khr, device, swapchain_khr,
     render_pass, pipeline_layout, graphic_pipeline, vert_shader_module,
     frag_shader_module, command_pool, image_avaliable_semaphore,
     render_finished_semaphore}
    \cup Range(swapchain_image_views(n)) \cup Range(swapchain_framebuffers(n))

\* C5: once App::new has returned, each of its handles has been created
\* exactly once; when teardown has ended each has been destroyed exactly
\* once; no handle is ever created or destroyed twice, and no native call is
\* handed a handle that is not alive.
C5_CreatedOnceDestroyedOnce ==
    /\ \A h \in Range(created) : Count(created, h) = 1
    /\ \A h \in Range(destroyed) : Count(destroyed, h) = 1 /\ Count(created, h) = 1
    /\ AppConstructed => Range(created) = AllHandles(swapchain_image)
    /\ TeardownDone => Range(destroyed) = AllHandles(swapchain_image)
    /\ ~stale

\* Teardown has ended after two frames were drawn on two images.
C5_Witness ==
    /\ TeardownDone
    /\ frame = 2
    /\ swapchain_image = 2
    /\ Len(destroyed) = 17

\* pick_physic_device has returned a device.
Picked == physical_device # None

SuitableIndexes ==
    {i \in 1..Len(physical_devices) : is_device_suitable(physical_devices[i])}

\* C6: the device pick_physic_device returns is the suitable device with the
\* lowest index in the enumerated list.
C6_PicksFirstSuitable ==
    Picked =>
        /\ physical_device \in SuitableIndexes
        /\ \A i \in SuitableIndexes : physical_device <= i

\* C7: every failure aborts at the point of failure, with the message of the
\* failed operation: once an operation has failed the thread is in its panic
\* and runs nothing further.
C7_EveryFailureAborts ==
    failures # {} => pc = panic /\ abort_msg \in failures

DrawFailed == \E j \in 1..Len(calls) : ~calls[j].ok

\* After a failed call of draw_frame: the failed call is the last call of
\* draw_frame ever made, and the thread is in its panic.
FailedCallIsLast ==
    DrawFailed =>
        /\ pc = panic
        /\ \A j \in 1..Len(calls) : ~calls[j].ok => j = Len(calls)

\* After a failed call of draw_frame no native call of draw_frame is made,
\* no frame is started and nothing (so no swapchain) is created.
NothingAfterDrawFailure ==
    DrawFailed =>
        /\ calls' = calls
        /\ frame' = frame
        /\ created' = created
        /\ pc' = pc

\* C8: when acquisition, submission or presentation fails in draw_frame the
\* step is not retried, the swapchain is not created again and no other
\* frame is started.
C8_NoRetryNoRecovery ==
    []FailedCallIsLast /\ [][NothingAfterDrawFailure]_vars

\* The presentation of the second frame has failed and App has been dropped
\* by the unwinding.
C8_Witness ==
    /\ DrawFailed
    /\ calls[Len(calls)].op = "queue_present"
    /\ frame = 2
    /\ TeardownDone

StartupOrder ==
    <<"instance", "debug_messenger", "surface", "physical_device",
      "logical_device", "swapchain", "image_views", "render_pass", "pipeline",
      "framebuffers", "command_pool", "command_buffers", "semaphores">>

StartupStagesRun(log) == SelectSeq(log, LAMBDA st : st \in Range(StartupOrder))

\* C9: the startup stages run once each in the order of StartupOrder, all of
\* them before the first draw_frame; after the first draw_frame only
\* draw_frame runs, until the teardown.
C9_StartupOnceThenDrawFrame ==
    /\ LET run == StartupStagesRun(stages)
       IN /\ Len(run) <= Len(StartupOrder)
          /\ run = SubSeq(StartupOrder, 1, Len(run))
    /\ \A i \in 1..Len(stages) :
          stages[i] = "draw_frame" =>
              /\ StartupStagesRun(SubSeq(stages, 1, i - 1)) = StartupOrder
              /\ \A j \in (i + 1)..Len(stages) : stages[j] \in {"draw_frame", "drop"}
    /\ \A i \in 1..Len(stages) : stages[i] = "drop" => i = Len(stages)

\* Two frames have been drawn and App has been dropped.
C9_Witness ==
    /\ Len(SelectSeq(stages, LAMBDA st : st = "draw_frame")) = 2
    /\ stages[Len(stages)] = "drop"

Preferred(f) == f.format = B8G8R8A8_SRGB /\ f.color_space = SRGB_NONLINEAR
PreferredIndexes == {i \in 1..Len(avaliable_formats) : Preferred(avaliable_formats[i])}
Min(S) == CHOOSE x \in S : \A y \in S : x <= y

\* create_swap_chain has chosen the surface format.
FormatChosen == "swapchain" \in Range(stages) /\ surface_format.format # "UNDEFINED"

\* C10: for a non-empty list, choose_swap_surface_format returns the first
\* entry of format B8G8R8A8_SRGB and color space SRGB_NONLINEAR when there is
\* one, the first entry otherwise; the result is an entry of the list.
C10_PreferredFormatOrFirst ==
    FormatChosen =>
        /\ surface_format \in Range(avaliable_formats)
        /\ surface_format =
              IF PreferredIndexes # {}
              THEN avaliable_formats[Min(PreferredIndexes)]
              ELSE avaliable_formats[1]

\* The preferred entry is found behind two others.
C10_Witness ==
    /\ FormatChosen
    /\ Len(avaliable_formats) = 3
    /\ PreferredIndexes = {3}
    /\ avaliable_formats[1] # avaliable_formats[2]

\* No entry is the preferred one: the first is returned.
C10_WitnessFallback ==
    /\ FormatChosen
    /\ Len(avaliable_formats) = 3
    /\ PreferredIndexes = {}
    /\ avaliable_formats[1] # avaliable_formats[2]

\* create_swap_chain has chosen the present mode.
PresentModeChosen == swapchain_ci # <<>> /\ Len(avaliable_present_modes) > 0

ChosenPresentMode == swapchain_ci[1].present_mode

\* C11 as stated: for a non-empty list, choose_swap_present_mode returns
\* MAILBOX when the list holds it and the first entry of the list otherwise;
\* the result is an entry of the list.
C11_PreferredModeOrFirst ==
    PresentModeChosen =>
        /\ ChosenPresentMode \in Range(avaliable_present_modes)
        /\ ChosenPresentMode =
              IF MAILBOX \in Range(avaliable_present_modes)
              THEN MAILBOX ELSE avaliable_present_modes[1]

\* C11, amended: choose_swap_present_mode returns MAILBOX when the list
\* holds it and FIFO otherwise, whatever the first entry is; the result is
\* an entry of the list when the list holds MAILBOX or FIFO.
C11_PreferredModeOrFifo ==
    PresentModeChosen =>
        /\ ChosenPresentMode =
              IF MAILBOX \in Range(avaliable_present_modes) THEN MAILBOX ELSE FIFO
        /\ {MAILBOX, FIFO} \cap Range(avaliable_present_modes) # {} =>
              ChosenPresentMode \in Range(avaliable_present_modes)

\* FIFO is chosen from a list without MAILBOX whose first entry is another
\* mode.
C11_Witness ==
    /\ PresentModeChosen
    /\ "swapchain" \in Range(stages)
    /\ avaliable_present_modes = <<"IMMEDIATE", "FIFO_RELAXED", FIFO>>
    /\ ChosenPresentMode = FIFO

\* The events on which the handler sets ControlFlow::Exit.
ExitEvents ==
    {Event("CloseRequested", "-", "-"), Event("KeyboardInput", "Escape", "Pressed")}

\* The control flow is Exit once the handler has run for an exit event,
\* and only then.
ExitAfterExitEvent ==
    /\ last_event \in ExitEvents => control_flow = "Exit"
    /\ control_flow \in {"Poll", "Exit"}
    /\ last_event.event = "none" => control_flow = "Poll"

\* The control flow changes only in the handling of an exit event, and only
\* to Exit; the handling of any other event leaves it as it is.
ExitOnlyOnExitEvent ==
    /\ control_flow' # control_flow =>
          control_flow' = "Exit" /\ last_event' \in ExitEvents
    /\ control_flow = "Exit" => control_flow' = "Exit"

\* C12: the handler sets the control flow to Exit exactly when the event is
\* CloseRequested or a KeyboardInput of Escape, Pressed; no other event
\* changes the control flow, and it never leaves Exit.
C12_ExitExactlyOnCloseOrEscape ==
    []ExitAfterExitEvent /\ [][ExitOnlyOnExitEvent]_vars

\* After an exit event the handler has run for the release of Escape, and
\* the control flow is still Exit.
C12_Witness ==
    /\ control_flow = "Exit"
    /\ last_event = Event("KeyboardInput", "Escape", "Released")
    /\ pc = "event_loop"

\* The handler has run for the release of Escape and for other events
\* without an exit event: the control flow is still Poll.
C12_WitnessNoExit ==
    /\ control_flow = "Poll"
    /\ last_event = Event("KeyboardInput", "Escape", "Released")
    /\ frame = 1

\* Drop for App has been entered.
DropRan == "drop" \in Range(stages)

\* After the teardown no draw_frame runs.
NoDrawAfterDrop ==
    DropRan => frame' = frame /\ calls' = calls /\ stages' = stages

\* C13: once the handler has set the control flow to Exit for a
\* CloseRequested or an Escape press, the teardown of App eventually runs;
\* it runs once, and no draw_frame runs after it.
C13_ExitLeadsToTeardown ==
    /\ (control_flow = "Exit") ~> DropRan
    /\ [](Count(stages, "drop") <= 1)
    /\ [][NoDrawAfterDrop]_vars

\* The thread is at a native call of draw_frame that returns at once.
SubmitReturns == QueueSubmit /\ pc' = "queue_present"
PresentReturns == QueuePresent /\ pc' = "event_loop"
AcquireReturns == AcquireNextImage /\ pc' = "queue_submit"

\* C14: of the calls of draw_frame only the acquisition waits, and it waits
\* for nothing but an image that can be acquired; with its timeout of
\* u64::MAX it never returns TIMEOUT or NOT_READY; submission and
\* presentation wait for nothing, so not for the frames submitted before.
C14_OnlyAcquisitionBlocks ==
    /\ \A j \in 1..Len(calls) : calls[j].result \in {"SUCCESS", "ERROR"}
    /\ pc = "acquire_next_image" => (ENABLED AcquireReturns <=> FreeImages # {})
    /\ pc = "queue_submit" => ENABLED SubmitReturns
    /\ pc = "queue_present" => ENABLED PresentReturns

\* Frame 2 has been submitted while the batch of frame 1 has not started.
C14_Witness ==
    /\ graphics_queue = <<1, 2>>
    /\ ~executing
    /\ pc = "queue_present"

\* The thread waits in the acquisition of frame 2: the one image is with the
\* presentation engine.
C14_WitnessBlocked ==
    /\ pc = "acquire_next_image"
    /\ frame = 2
    /\ FreeImages = {}
    /\ swapchain_image = 1

\* r is x brought into lo..hi.
ClampedInto(r, x, lo, hi) ==
    /\ lo <= r /\ r <= hi
    /\ x < lo => r = lo
    /\ x > hi => r = hi
    /\ (lo <= x /\ x <= hi) => r = x

\* e is the extent C15 describes for the capabilities of the surface.
ClaimedExtent(e) ==
    IF capabilities.current_extent.width # U32_MAX
    THEN e = capabilities.current_extent
    ELSE /\ ClampedInto(e.width, 800, capabilities.min_image_extent.width,
                        capabilities.max_image_extent.width)
         /\ ClampedInto(e.height, 600, capabilities.min_image_extent.height,
                        capabilities.max_image_extent.height)

SameSize(v, e) == v.width = e.width /\ v.height = e.height

\* C15: the extent handed to create_swapchain is the surface's current
\* extent when its width is not u32::MAX, and 800x600 clamped into the
\* surface's least and largest extent otherwise; App's swapchain extent,
\* every framebuffer, the render area and the viewport recorded in every
\* command buffer, and the viewport and scissor of the pipeline have that
\* same extent.
C15_ExtentChosenAndShared ==
    swapchain_ci # <<>> =>
        LET e == swapchain_ci[1].image_extent
        IN /\ ClaimedExtent(e)
           /\ swapchain_khr \in Range(created) /\ swapchain_image > 0 =>
                 swapchain_extent = e
           /\ \A i \in 1..Len(framebuffer_cis) : SameSize(framebuffer_cis[i], e)
           /\ \A i \in 1..Len(pipeline_ci) :
                 /\ SameSize(pipeline_ci[i].viewports[1], e)
                 /\ pipeline_ci[i].scissors[1] = e
           /\ \A b \in 1..Len(command_buffers) :
                 /\ command_buffers[b].render_area = e
                 /\ SameSize(command_buffers[b].viewports[1], e)

\* The surface leaves the extent to the swapchain; 800 is below its least
\* width and 600 above its largest height; the command buffers of two
\* images are recorded.
C15_Witness ==
    /\ Len(command_buffers) = 2
    /\ Len(framebuffer_cis) = 2
    /\ capabilities.current_extent.width = U32_MAX
    /\ capabilities.min_image_extent = Extent2D(1024, 1)
    /\ capabilities.max_image_extent = Extent2D(4096, 480)
    /\ swapchain_extent = Extent2D(1024, 480)

\* The surface reports its extent, which is not the window's size.
C15_WitnessCurrent ==
    /\ Len(command_buffers) = 2
    /\ capabilities.current_extent = Extent2D(1024, 768)
    /\ capabilities.min_image_extent = Extent2D(1, 1)
    /\ capabilities.max_image_extent = Extent2D(4096, 4096)
    /\ swapchain_extent = Extent2D(1024, 768)

NoValidationLayer == "validation layers requested, but not avaliable!"

\* The name in a layer_name buffer: what stands before its first NUL.
NameIn(buffer) ==
    LET n == CHOOSE n \in 0..Len(buffer) :
                 /\ \A j \in 1..n : buffer[j] # NUL
                 /\ n < Len(buffer) => buffer[n + 1] = NUL
    IN SubSeq(buffer, 1, n)

\* Every required layer has the name of an enumerated layer.
RequiredLayersEnumerated ==
    \A k \in 1..Len(required_validation_layers) :
        \E j \in 1..Len(instance_layers) :
            NameIn(instance_layers[j]) = <<required_validation_layers[k]>>

\* check_validation_layer_support has returned.
ValidationReturned ==
    /\ "validation" \in Range(stages)
    /\ "Failed to enumerate Instance Layers Properties" \notin failures

\* C16: check_validation_layer_support returns true exactly when every
\* required layer has the name of an enumerated layer; when it returns
\* false App::new panics with its message and has created, and creates,
\* neither the instance nor any other native object.
C16_ValidationLayerCheck ==
    /\ ValidationReturned =>
          (RequiredLayersEnumerated <=> NoValidationLayer \notin failures)
    /\ NoValidationLayer \in failures =>
          /\ pc = panic
          /\ abort_msg = NoValidationLayer
          /\ created = <<>>

\* The validation layer is not enumerated, but a layer whose name begins
\* with its name is: App::new has panicked.
C16_Witness ==
    /\ ValidationReturned
    /\ abort_msg = NoValidationLayer
    /\ instance_layers = <<c_chars("VK_LAYER_LUNARG_api_dump"),
                           <<VALIDATION_LAYER, "_old", NUL>>>>

\* The validation layer is enumerated, behind two others: the instance and
\* the debug messenger are created.
C16_WitnessFound ==
    /\ ValidationReturned
    /\ Len(instance_layers) = 3
    /\ instance_layers[3] = <<VALIDATION_LAYER, NUL, "_old", NUL>>
    /\ NameIn(instance_layers[1]) # <<VALIDATION_LAYER>>
    /\ NameIn(instance_layers[2]) # <<VALIDATION_LAYER>>
    /\ debug_utils_messenger \in Range(created)

NoGPU == "Failed to find GPUs with vulkan support."
NoSuitableGPU == "Failed to find a suitable GPU!"

\* pick_physic_device has run, and there was no device it could return.
PickedFromNone ==
    /\ "physical_device" \in Range(stages)
    /\ SuitableIndexes = {}

\* C17: when no device is enumerated, or none of the enumerated devices is
\* suitable, pick_physic_device panics with a message (its own, unless a
\* query of a device failed before) and returns no device; no logical device
\* and no swapchain is created and no queue fetched, then or later.
C17_NoDeviceAborts ==
    PickedFromNone =>
        /\ pc = panic
        /\ abort_msg # ""
        /\ failures = {abort_msg}
        /\ abort_msg \in {NoGPU, NoSuitableGPU} =>
              (abort_msg = NoGPU <=> Len(physical_devices) = 0)
        /\ Len(calls) = 0
        /\ physical_device = None
        /\ {device, swapchain_khr} \cap Range(created) = {}
        /\ device_ci = <<>> /\ device_queues = <<>> /\ swapchain_ci = <<>>

\* Two devices are enumerated, neither is suitable, and every query of them
\* succeeded.
C17_Witness ==
    /\ PickedFromNone
    /\ Len(physical_devices) = 2
    /\ abort_msg = NoSuitableGPU
    /\ is_complete(find_queue_family(physical_devices[1]))
    /\ ~is_complete(find_queue_family(physical_devices[2]))

\* No device is enumerated.
C17_WitnessEmpty ==
    /\ PickedFromNone
    /\ physical_devices = <<>>
    /\ abort_msg = NoGPU

RecordedSequence ==
    <<"begin_command_buffer", "cmd_begin_render_pass", "cmd_bind_pipeline",
      "cmd_set_viewport", "cmd_draw", "cmd_end_render_pass", "end_command_buffer">>

\* What a command buffer holds: the seven commands in order, with one draw,
\* of 3 vertices and 1 instance, inside the render pass of its own
\* framebuffer and after the binding of the pipeline.
RecordedAsClaimed(b) ==
    LET cb == command_buffers[b]
    IN /\ cb.commands = RecordedSequence
       /\ cb.recorded = 1
       /\ cb.framebuffer = b
       /\ Count(cb.commands, "cmd_draw") = 1
       /\ Before(cb.commands, "cmd_begin_render_pass", "cmd_draw")
       /\ Before(cb.commands, "cmd_bind_pipeline", "cmd_draw")
       /\ Before(cb.commands, "cmd_draw", "cmd_end_render_pass")
       /\ cb.draw.vertex_count = 3
       /\ cb.draw.instance_count = 1

RecordedAtStartup ==
    /\ \A b \in 1..Len(command_buffers) : RecordedAsClaimed(b)
    /\ Len(command_buffers) \in {0, swapchain_image}
    /\ frame > 0 => Len(command_buffers) = swapchain_image
    /\ \A i \in 1..Len(pipeline_ci) :
          /\ pipeline_ci[i].vertex_binding_description_count = 0
          /\ pipeline_ci[i].vertex_attribute_description_count = 0
    /\ Len(command_buffers) > 0 => Len(pipeline_ci) = 1

\* Once recorded the command buffers are not recorded again.
RecordedOnce ==
    command_buffers # <<>> => command_buffers' = command_buffers

\* C18: every command buffer is recorded once, in create_command_buffers,
\* with begin command buffer, begin render pass, bind pipeline, set
\* viewport, draw of 3 vertices and 1 instance, end render pass, end command
\* buffer; the pipeline has no vertex binding and no vertex attribute.
C18_CommandBuffersRecordedOnce ==
    []RecordedAtStartup /\ [][RecordedOnce]_vars

\* The command buffers of two images have been recorded and one of them has
\* been submitted in each of two frames.
C18_Witness ==
    /\ Len(command_buffers) = 2
    /\ frame = 2
    /\ Len(graphics_queue) + Cardinality(render_signalled) = 2

\* No operation is outstanding on image_avaliable_semaphore: no acquisition
\* has yet to signal it, it holds no signal, and no batch waits for it.
ImageAvaliableIdle ==
    /\ acquire_pending = {}
    /\ ~image_avaliable_signaled
    /\ graphics_queue = <<>> \/ (Len(graphics_queue) = 1 /\ executing)

\* No operation is outstanding on render_finished_semaphore: no batch has
\* yet to signal it, it holds no signal, and no presentation waits for it.
RenderFinishedIdle ==
    /\ graphics_queue = <<>>
    /\ ~render_finished_signaled
    /\ present_queue = <<>>

\* An acquisition gives image_avaliable_semaphore a signal operation, a
\* submission gives render_finished_semaphore one: only when idle.
NewSignalOnIdleSemaphore ==
    /\ acquire_pending' \ acquire_pending # {} => ImageAvaliableIdle
    /\ Len(graphics_queue') > Len(graphics_queue) => RenderFinishedIdle

\* C19: draw_frame gives neither semaphore a new signal operation while an
\* earlier signal or wait operation on it is pending or its signal is not
\* yet consumed.
C19_NoSignalOnBusySemaphore == [][NewSignalOnIdleSemaphore]_vars

\* The families of the queue create infos the driver reads: the first
\* queue_create_info_count of them.
FamiliesRequested ==
    {device_ci[1].p_queue_create_infos[j].queue_family_index :
        j \in 1..device_ci[1].queue_create_info_count}

\* C20: the device is created with a queue for each of the distinct
\* families among the graphics family and the present family, so that both
\* queues App::new fetches are queues of a family requested at the creation
\* of the device.
C20_QueuesOfRequestedFamilies ==
    device_queues # <<>> =>
        /\ FamiliesRequested = unique_queue_familes(queue_family_indices)
        /\ \A q \in 1..Len(device_queues) :
              /\ device_queues[q].queue_family_index \in FamiliesRequested
              /\ device_queues[q].queue_index = 0

\* The swapchain image that the render pass recorded in command buffer b
\* draws to: the image of the view attached to the buffer's framebuffer.
TargetImage(b) ==
    LET view == framebuffer_cis[command_buffers[b].framebuffer].attachments[1]
    IN image_view_cis[Pos(swapchain_image_views(Len(image_view_cis)), view)].image

\* Once a stage has run to its end it has made one element for every image
\* the swapchain returned, element i for image i.
OnePerImage ==
    /\ Len(image_view_cis) <= swapchain_image
    /\ Len(framebuffer_cis) <= Len(image_view_cis)
    /\ "render_pass" \in Range(stages) => Len(image_view_cis) = swapchain_image
    /\ "command_pool" \in Range(stages) => Len(framebuffer_cis) = swapchain_image
    /\ Len(command_buffers) \in {0, swapchain_image}
    /\ AppConstructed =>
          /\ Len(image_state) = swapchain_image
          /\ Len(image_view_cis) = swapchain_image
          /\ Len(framebuffer_cis) = swapchain_image
          /\ Len(command_buffers) = swapchain_image
    /\ \A i \in 1..Len(image_view_cis) : image_view_cis[i].image = i
    /\ \A i \in 1..Len(framebuffer_cis) :
          framebuffer_cis[i].attachments =
              <<swapchain_image_views(Len(image_view_cis))[i]>>
    /\ \A b \in 1..Len(command_buffers) :
          /\ command_buffers[b].framebuffer \in 1..Len(framebuffer_cis)
          /\ TargetImage(b) = b

\* The image the acquisition of frame f returned.
Acquired(f) == FrameCalls(f)[1].image

\* Every call of draw_frame after a successful acquisition names the
\* acquired image: the submission the one command buffer that draws to it,
\* the presentation its index.
DrawsToAcquiredImage ==
    \A j \in 1..Len(calls) :
        LET c == calls[j]
        IN /\ c.op = "acquire_next_image" /\ c.ok => c.image \in 1..swapchain_image
           /\ c.op = "queue_submit" =>
                 /\ Len(c.command_buffers) = 1
                 /\ c.command_buffers[1] \in 1..Len(command_buffers)
                 /\ TargetImage(c.command_buffers[1]) = Acquired(c.frame)
           /\ c.op = "queue_present" => c.image = Acquired(c.frame)

\* C21: there are as many image views, framebuffers and command buffers as
\* images the swapchain returned, element i of each for image i; for every
\* image the acquisition returns, draw_frame indexes command_buffers in
\* range, submits the command buffer whose render pass draws to the
\* framebuffer of the acquired image, and presents that image.
C21_OnePerImageAndAcquiredImageDrawn == OnePerImage /\ DrawsToAcquiredImage

\* Two frames have been drawn to the two images of the swapchain, the second
\* frame to the second image.
C21_Witness ==
    /\ swapchain_image = 2
    /\ frame = 2
    /\ pc = "event_loop"
    /\ Len(calls) = 6
    /\ Acquired(1) = 1
    /\ Acquired(2) = 2
    /\ calls[5].command_buffers = <<2>>
    /\ calls[6].ok

\* Work that a draw_frame submitted and the GPU has not finished: a batch on
\* the graphics queue, a present request on the present queue.
PendingWork == graphics_queue # <<>> \/ executing \/ present_queue # <<>>

\* What Drop for App has destroyed (the shader modules are destroyed by
\* create_graphics_pipeline).
DestroyedByDrop == Range(destroyed) \ {vert_shader_module, frag_shader_module}

\* Drop calls device_wait_idle first, and only destroys after it.
WaitIdleFirst ==
    /\ DropCalls[1].op = "device_wait_idle"
    /\ \A j \in 2..Len(DropCalls) : DropCalls[j].op = "destroy"

\* Nothing is destroyed by Drop while work is pending.
NoDestroyWhilePending ==
    DestroyedByDrop # {} => WaitIdleFirst /\ ~PendingWork

\* The step in which Drop destroys starts with the device idle.
DestroyStartsIdle ==
    DestroyedByDrop' # DestroyedByDrop => DeviceIdle /\ ~executing

\* C22: Drop for App calls device_wait_idle before its first destroy call
\* and destroys only once it has returned: no semaphore, command pool,
\* framebuffer, pipeline, image view or swapchain is destroyed while a batch
\* or a present request of an earlier draw_frame is pending.
C22_WaitIdleBeforeDestroy ==
    []NoDestroyWhilePending /\ [][DestroyStartsIdle]_vars

\* Teardown has ended after two frames, whose work the GPU has done.
C22_Witness ==
    /\ TeardownDone
    /\ frame = 2
    /\ present_started = {1, 2}
    /\ Len(calls) = 6

\* The loop has ended with the batch of a frame still on the graphics queue:
\* Drop has destroyed nothing.
C22_WitnessWaiting ==
    /\ pc = "exit"
    /\ graphics_queue # <<>>
    /\ DestroyedByDrop = {}

\* The device has a family with queues that supports graphics, presentation.
HasGraphicsFamily(d) ==
    \E j \in 1..Len(d.families) :
        d.families[j].queue_count > 0 /\ d.families[j].graphics
HasPresentFamily(d) ==
    \E j \in 1..Len(d.families) :
        d.families[j].queue_count > 0 /\ d.families[j].present

\* Suitable as C23 has it.
ClaimedSuitable(d) ==
    /\ HasGraphicsFamily(d) /\ HasPresentFamily(d)
    /\ DEVICE_EXTENSIONS \subseteq d.extensions
    /\ d.has_formats /\ d.has_present_modes

\* The indices are as C23 has them: both found exactly when the device has
\* a family for each, and an index found is that of a family with queues
\* that supports what it is the index for (indices count from 0).
IndicesAsClaimed(d, indices) ==
    /\ is_complete(indices) <=> (HasGraphicsFamily(d) /\ HasPresentFamily(d))
    /\ indices.graphics_family # None =>
          /\ indices.graphics_family \in 0..(Len(d.families) - 1)
          /\ d.families[indices.graphics_family + 1].queue_count > 0
          /\ d.families[indices.graphics_family + 1].graphics
    /\ indices.present_family # None =>
          /\ indices.present_family \in 0..(Len(d.families) - 1)
          /\ d.families[indices.present_family + 1].queue_count > 0
          /\ d.families[indices.present_family + 1].present

SwapChainQueries ==
    {QuerySwapChainSupportCalls[j].op : j \in 1..Len(QuerySwapChainSupportCalls)}
SwapChainQueryFailures ==
    {QuerySwapChainSupportCalls[j].msg : j \in 1..Len(QuerySwapChainSupportCalls)}

\* pick_physic_device has run, and has run is_device_suitable to its end.
SuitabilityDecided ==
    /\ "physical_device" \in Range(stages)
    /\ Picked \/ abort_msg = NoSuitableGPU

\* C23: a device is suitable (here: picked, being the only device) exactly
\* when find_queue_family finds a graphics and a present family, the device
\* has every required extension and the surface has a format and a present
\* mode; swapchain support is queried only for a device with the required
\* extensions; find_queue_family finds both indices exactly when there is a
\* family with queues for graphics and one for presentation, and an index
\* it returns is that of such a family.
C23_SuitableExactlyWhenAdequate ==
    "physical_device" \in Range(stages) =>
        LET d == physical_devices[1]
        IN /\ SuitabilityDecided => (Picked <=> ClaimedSuitable(d))
           /\ SuitabilityDecided => (Picked <=> is_device_suitable(d))
           /\ Range(Ops(IsDeviceSuitableCalls(d))) \cap SwapChainQueries # {} <=>
                 DEVICE_EXTENSIONS \subseteq d.extensions
           /\ (stages[Len(stages)] = "physical_device"
                 /\ abort_msg \in SwapChainQueryFailures) =>
                 DEVICE_EXTENSIONS \subseteq d.extensions
           /\ IndicesAsClaimed(d, find_queue_family(d))
           /\ is_complete(queue_family_indices) =>
                 /\ queue_family_indices = find_queue_family(d)
                 /\ IndicesAsClaimed(d, queue_family_indices)

\* The device's first family presents only, its second draws only: it is
\* picked, with graphics family 1 and present family 0.
C23_Witness ==
    /\ Picked
    /\ physical_devices[1].families =
          <<QueueFamily(1, FALSE, TRUE), QueueFamily(1, TRUE, FALSE)>>
    /\ queue_family_indices = [graphics_family |-> 1, present_family |-> 0]
    /\ device_queues # <<>>

\* The only family that supports graphics has no queue: the device is not
\* suitable though it has the extensions, formats and present modes.
C23_WitnessNoQueue ==
    /\ SuitabilityDecided
    /\ ~Picked
    /\ physical_devices[1].families =
          <<QueueFamily(0, TRUE, TRUE), QueueFamily(1, FALSE, TRUE)>>
    /\ physical_devices[1].extensions = DEVICE_EXTENSIONS
    /\ physical_devices[1].has_formats
    /\ physical_devices[1].has_present_modes

\* create_swap_chain has built its SwapchainCreateInfoKHR.
SwapchainRequested == swapchain_ci # <<>> /\ "swapchain" \in Range(stages)

\* C24: the image count asked of the swapchain is min_image_count + 1, or
\* max_image_count when max_image_count > 0 and min_image_count + 1 is above
\* it; so it is not below min_image_count and, when max_image_count > 0, not
\* above max_image_count.
C24_ImageCountWithinSurfaceLimits ==
    SwapchainRequested =>
        LET count == swapchain_ci[1].min_image_count
            least == capabilities.min_image_count
            most == capabilities.max_image_count
        IN /\ count = IF most > 0 /\ least + 1 > most THEN most ELSE least + 1
           /\ count >= least
           /\ most > 0 => count <= most
           /\ most = 0 => count = least + 1

\* The surface supports exactly two images: two are asked for, not three,
\* and the swapchain is created.
C24_Witness ==
    /\ SwapchainRequested
    /\ capabilities.min_image_count = 2
    /\ capabilities.max_image_count = 2
    /\ swapchain_ci[1].min_image_count = 2
    /\ swapchain_image = 2

\* The surface has no upper limit: one image more than the least is asked
\* for.
C24_WitnessNoLimit ==
    /\ SwapchainRequested
    /\ capabilities.min_image_count = 3
    /\ capabilities.max_image_count = 0
    /\ swapchain_ci[1].min_image_count = 4
    /\ swapchain_image = 4

\* C25: the swapchain is created with sharing mode CONCURRENT and the two
\* queue family indices, graphics then present, when the two families
\* differ, and with sharing mode EXCLUSIVE and no queue family index when
\* they are one family.
C25_SharingModeByFamilies ==
    SwapchainRequested =>
        LET ci == swapchain_ci[1]
            g == queue_family_indices.graphics_family
            p == queue_family_indices.present_family
        IN /\ is_complete(queue_family_indices)
           /\ g # p =>
                 /\ ci.image_sharing_mode = "CONCURRENT"
                 /\ ci.queue_family_index_count = 2
                 /\ ci.p_queue_family_indices = <<g, p>>
           /\ g = p =>
                 /\ ci.image_sharing_mode = "EXCLUSIVE"
                 /\ ci.queue_family_index_count = 0
                 /\ ci.p_queue_family_indices = <<>>

\* The swapchain is created for a device whose graphics family is 1 and
\* whose present family is 0.
C25_Witness ==
    /\ SwapchainRequested
    /\ swapchain_khr \in Range(created)
    /\ queue_family_indices = [graphics_family |-> 1, present_family |-> 0]
    /\ swapchain_ci[1].image_sharing_mode = "CONCURRENT"

\* The swapchain is created for a device with one family for both.
C25_WitnessOneFamily ==
    /\ SwapchainRequested
    /\ swapchain_khr \in Range(created)
    /\ queue_family_indices = [graphics_family |-> 1, present_family |-> 1]
    /\ swapchain_ci[1].image_sharing_mode = "EXCLUSIVE"

====
